---- MODULE Spec2Model ----
(***************************************************************************)
(* Model of the locator resolution and validation engine:                  *)
(*   src/screen.py             AppiumBase (driver session, element         *)
(*                             resolution, scrolling, metrics, audit)      *)
(*   src/locator_generator.py  AILocatorGenerator (validation, scoring,    *)
(*                             inference)                                  *)
(* The driver (UI surface) and the text-generation service are the         *)
(* environment: every outcome they can produce is a nondeterministic       *)
(* choice of the action that calls them.                                   *)
(***************************************************************************)
EXTENDS Integers, Sequences, FiniteSets, TLC

VARIABLES
    driver,               \* self.driver is not None
    performance_metrics,  \* self._performance_metrics
    audit_trail,          \* self._audit_trail
    pc,                   \* position of the single thread of control
    req,                  \* arguments of the running / last find_element_safe
    i,                    \* index of the strategy_order loop (1-based)
    lookups,              \* driver lookups made by the running find_element_safe
    result,               \* what the running / last find_element_safe produced
    scroll,               \* frame of the running / last scroll_to_element
    init,                 \* frame of the running / last initialize_driver
    analysis              \* frame of the last analyze_element

vars == <<driver, performance_metrics, audit_trail, pc, req, i, lookups, result, scroll,
          init, analysis>>

(************************* bounds of the model ****************************)
\* largest timeout budget a caller passes
MaxTimeout == 7
\* the timeout budgets callers pass besides None, 0 and the scroll budget
LongTimeout == 2 * MaxTimeout - 1
\* largest max_scrolls a caller passes
MaxScrolls == 2
\* calls start only while fewer than this many metrics are recorded
MaxMetrics == 2
\* most elements a reply to analyze_complete_screen reports
MaxElements == 2
\* longest locator value handed to _assess_locator_quality
MaxValueLen == 7
\* most fallback locators of a candidate handed to _calculate_confidence
MaxFallbacks == 4
\* longest reply text (in tokens) handed to _extract_json_from_response
MaxTextLen == 4
\* steps of a test case
MaxSteps == 2
\* longest reply text (in lines) handed to _extract_python_code_from_response
MaxScriptLines == 4

(************************* program constants ******************************)
DEFAULT_TIMEOUT == 15
MAX_RETRY_ATTEMPTS == 3
TEXT_FALLBACK_TIMEOUT == 2
SCROLL_ATTEMPT_TIMEOUT == 2
\* encoding of Python's None for the optional timeout argument
None == -1

\* keys of the strategies dict of find_element_safe, in insertion order
strategies == <<"id", "xpath", "accessibility_id", "class_name", "android_uiautomator">>

\* strategy names a caller can pass: the mapped ones and the two the schema
\* template lists besides them
LocatorStrategies == {"id", "xpath", "accessibility_id", "class_name",
                      "android_uiautomator", "name", "tag_name"}

LocatorValues == {"login_btn", "Login"}

\* the locators a caller scrolls to: a strategy the resolver maps and one it
\* does not map
ScrollTargets ==
    { t \in [strategy : {"xpath", "name"}, value : LocatorValues] :
        (t.strategy = "xpath") = (t.value = "login_btn") }

TimeoutArgs == {None, 0, SCROLL_ATTEMPT_TIMEOUT, MaxTimeout, LongTimeout}

\* fallback_locators of the LocatorAnalysis record the caller resolves
FallbackLists == { <<>>,
                   << [strategy |-> "accessibility_id", value |-> "Login"],
                      [strategy |-> "id", value |-> "btn2"] >> }

\* the records a caller resolves: the primary value and the fallback locators
ResolvedRecords ==
    { r \in [value : LocatorValues, fallback_locators : FallbackLists] :
        (r.value = "Login") = (r.fallback_locators = <<>>) }

(************************* helpers ****************************************)
Range(s) == { s[k] : k \in 1..Len(s) }

RECURSIVE SelectSeqNe(_, _)
\* [x for x in s if x != e]
SelectSeqNe(s, e) ==
    IF s = <<>> THEN <<>>
    ELSE IF Head(s) # e THEN <<Head(s)>> \o SelectSeqNe(Tail(s), e)
         ELSE SelectSeqNe(Tail(s), e)

\* timeout = timeout or self.DEFAULT_TIMEOUT
EffectiveTimeout(t) == IF t = None \/ t = 0 THEN DEFAULT_TIMEOUT ELSE t

\* mutant: the primary strategy is appended instead of prepended
StrategyOrder_PrimaryLast(locator_strategy) ==
    SelectSeqNe(strategies, locator_strategy) \o <<locator_strategy>>

\* strategy_order = [locator_strategy] + [s for s in strategies.keys() if s != locator_strategy]
StrategyOrder(locator_strategy) == <<locator_strategy>> \o SelectSeqNe(strategies, locator_strategy)

\* mutant: the quotient is rounded up
TrialWait_RoundUp(timeout, order) ==
    (EffectiveTimeout(timeout) + Len(order) - 1) \div Len(order)

\* mutant: every trial waits for the whole budget
TrialWait_WholeBudget(timeout, order) == EffectiveTimeout(timeout)

\* timeout // len(strategy_order)
TrialWait(timeout, order) == EffectiveTimeout(timeout) \div Len(order)

\* mutant: success is set before the body runs
Metric_SuccessFirst(operation, success) == [operation |-> operation, success |-> TRUE]

\* PerformanceMetrics(operation, success) appended by _performance_tracking
Metric(operation, success) == [operation |-> operation, success |-> success]

\* AuditEntry(action, result) appended by _audit
Audit(action, res) == [action |-> action, result |-> res]

\* result of find_element_safe: kind is "element" (a WebElement is returned),
\* "None" (None is returned), "NoSuchElementException" or "WebDriverException"
\* (raised; the latter stands for every exception class other than
\* TimeoutException and NoSuchElementException); via/strategy say which lookup
\* found the element, displayed what the surface reports for it, value is the
\* locator value the exception message names
NoResult == [kind |-> "pending", via |-> "", strategy |-> "", displayed |-> FALSE,
             value |-> ""]
NoReq == [locator_strategy |-> "", locator_value |-> "", timeout |-> None,
          fallback_locators |-> <<>>]
NoScroll == [active |-> FALSE, max_scrolls |-> 0, attempt |-> 0, events |-> <<>>,
             outcome |-> "none"]
NoInit == [attempt |-> 0, sleeps |-> <<>>, returned |-> "none"]

(************************* schema registry *********************************)
\* The schema file _load_locator_schema reads is not among the sources; the
\* three sets are the enumerations the prompt template of analyze_element
\* spells out for the same fields.
supported_strategies == {"id", "xpath", "class_name", "accessibility_id",
                         "android_uiautomator", "name", "tag_name"}
element_types == {"button", "text_field", "text_view", "image", "checkbox",
                  "radio_button", "dropdown", "list_item", "container"}
supported_actions == {"click", "send_keys", "verify_text"}

(************************* candidates (parsed JSON) ************************)
\* A parsed JSON object is a record that carries the set of keys it has; the
\* field of a key that is absent holds a fixed filler and is never read before
\* the key is tested.  Locator values are sequences of characters.
V_empty == <<>>
V_btn == <<"b", "t", "n">>
V_a_b == <<"a", "/", "b">>
V_path2 == <<"/", "/", "a">>
V_path4 == <<"/", "/", "a", "/", "b", "/", "c">>
V_path7 == <<"/", "/", "a", "/", "b", "/", "c", "/", "d", "/", "e", "/", "f">>

Loc(strategy, value) == [shape |-> "object", keys |-> {"strategy", "value"},
                         strategy |-> strategy, value |-> value]

\* primary_locator values a reply can carry: well-formed ones, one with a
\* strategy outside the schema, one without the strategy key, one that is no
\* JSON object at all
PrimaryLocators ==
    { Loc("id", V_btn), Loc("id", V_empty), Loc("id", V_a_b),
      Loc("accessibility_id", V_btn), Loc("class_name", V_btn),
      Loc("xpath", V_path2), Loc("xpath", V_path4), Loc("xpath", V_path7),
      Loc("android_uiautomator", V_btn), Loc("name", V_btn), Loc("tag_name", V_btn),
      Loc("css", V_btn),
      [shape |-> "object", keys |-> {"value"}, strategy |-> "", value |-> V_btn],
      [shape |-> "string", keys |-> {}, strategy |-> "", value |-> V_empty] }

FallbackLocatorLists ==
    { <<>>, << Loc("xpath", V_path2) >>, << Loc("id", V_btn), Loc("css", V_btn) >> }

\* suggested_actions values: JSON arrays, and JSON null
SuggestedActions ==
    { [shape |-> "array", items |-> <<>>],
      [shape |-> "array", items |-> <<"click", "send_keys">>],
      [shape |-> "array", items |-> <<"click", "fly">>],
      [shape |-> "null", items |-> <<>>] }

\* fillers of the fields whose key is absent
AbsentLocator == [shape |-> "absent", keys |-> {}, strategy |-> "", value |-> V_empty]
AbsentActions == [shape |-> "absent", items |-> <<>>]
AbsentList == << AbsentLocator >>
AbsentInfo == [content_desc |-> "absent"]

\* fillers of the fields whose key is present with the value JSON null
NullList == << [shape |-> "null", keys |-> {}, strategy |-> "", value |-> V_empty] >>
NullInfo == [content_desc |-> "null"]

\* the keys of the object whose fields are the given ones
KeysOf(has_name, et, pl, sa, fl, ai) ==
    (IF has_name THEN {"element_name"} ELSE {})
    \cup (IF et # "" THEN {"element_type"} ELSE {})
    \cup (IF pl # AbsentLocator THEN {"primary_locator"} ELSE {})
    \cup (IF sa # AbsentActions THEN {"suggested_actions"} ELSE {})
    \cup (IF fl # AbsentList THEN {"fallback_locators"} ELSE {})
    \cup (IF ai # AbsentInfo THEN {"accessibility_info"} ELSE {})

\* the objects json.loads can return for a reply: every field independently
\* absent or holding one of its values
LocatorData ==
    { [ keys |-> KeysOf(has_name, et, pl, sa, fl, ai),
        element_name |-> "login_button",
        element_type |-> et,
        primary_locator |-> pl,
        suggested_actions |-> sa,
        fallback_locators |-> fl,
        accessibility_info |-> ai ] :
      has_name \in BOOLEAN,
      et \in {"", "button", "slider"},
      pl \in PrimaryLocators \cup {AbsentLocator},
      sa \in SuggestedActions \cup {AbsentActions},
      fl \in FallbackLocatorLists \cup {AbsentList},
      ai \in {AbsentInfo, [content_desc |-> ""], [content_desc |-> "Login button"]} }

NoCandidate == [ keys |-> {}, element_name |-> "login_button", element_type |-> "",
                 primary_locator |-> AbsentLocator, suggested_actions |-> AbsentActions,
                 fallback_locators |-> AbsentList, accessibility_info |-> AbsentInfo ]

(************************* validation and scoring **************************)
\* for action in locator_data['suggested_actions']:
\*     if action not in self.supported_actions: return False
\* iterating JSON null raises TypeError, which the except clause turns into False
ActionsValid(sa) ==
    /\ sa.shape = "array"
    /\ \A k \in 1..Len(sa.items) : sa.items[k] \in supported_actions

\* primary['strategy'] not in self.supported_strategies -> False; a primary
\* that is no object (TypeError) or has no strategy key (KeyError) -> False
PrimaryValid(primary) ==
    /\ primary.shape = "object"
    /\ "strategy" \in primary.keys
    /\ primary.strategy \in supported_strategies

\* the exception the try body of _validate_generated_locator raises for a
\* candidate, "" when it reaches a return statement: with the three required
\* keys present, subscripting a primary_locator that is no object raises
\* TypeError, a primary_locator object without 'strategy' raises KeyError, and
\* (when the two membership tests on strategy and element type pass) iterating
\* a suggested_actions that is JSON null raises TypeError
ValidateRaises(locator_data) ==
    IF \E field \in {"element_name", "element_type", "primary_locator"} :
           field \notin locator_data.keys
    THEN ""
    ELSE IF locator_data.primary_locator.shape # "object" THEN "TypeError"
    ELSE IF "strategy" \notin locator_data.primary_locator.keys THEN "KeyError"
    ELSE IF locator_data.primary_locator.strategy \notin supported_strategies THEN ""
    ELSE IF locator_data.element_type \notin element_types THEN ""
    ELSE IF "suggested_actions" \in locator_data.keys
            /\ locator_data.suggested_actions.shape # "array"
    THEN "TypeError"
    ELSE ""

\* mutant: the except clause names KeyError only
ValidateCatches_KeyErrorOnly(exc) == exc = "KeyError"

\* except (KeyError, TypeError): return False
ValidateCatches(exc) == exc \in {"KeyError", "TypeError"}

\* the exception that leaves _validate_generated_locator, "" when it returns
ValidateEscapes(locator_data) ==
    IF ValidateCatches(ValidateRaises(locator_data)) THEN ""
    ELSE ValidateRaises(locator_data)

(************************* JSON extraction *********************************)
\* A reply text is a sequence of tokens: "{" and "}", "m" (one member of an
\* object, as in "k": 1), "w" (a word of prose), "42" (a JSON number), and the
\* code fences "fence_json" (three backquotes and the word json) and "fence"
\* (three backquotes).
ReplyTokens == {"{", "}", "m", "w"}

ReplyTexts ==
    UNION { [1..n -> ReplyTokens] : n \in 1..MaxTextLen }
    \cup { << "fence_json", "{", "m", "}", "fence" >>,
           << "w", "fence_json", "{", "m", "}", "fence", "w" >>,
           << "{", "m", "}", "w", "{", "m", "}" >>,
           << "{", "m", "}", "w", "{", "w", "}" >>,
           << "{", "fence_json", "}" >>,
           << "42" >>, << "w", "42" >> }

\* braces opened and not yet closed after the first k tokens
Depth(text, k) ==
    Cardinality({ n \in 1..k : text[n] = "{" }) - Cardinality({ n \in 1..k : text[n] = "}" })

\* the text is one JSON object: members and nested objects between a "{" and
\* the "}" that closes it
IsJsonObject(text) ==
    /\ Len(text) >= 2
    /\ text[1] = "{"
    /\ \A n \in 1..Len(text) : text[n] \in {"{", "}", "m"}
    /\ \A k \in 1..(Len(text) - 1) : Depth(text, k) >= 1
    /\ Depth(text, Len(text)) = 0

\* json.loads accepts the text
JsonParses(text) == IsJsonObject(text) \/ text = << "42" >>

\* every "fence_json" is removed (first re.sub), then a "fence" that ends the
\* text (second re.sub, anchored with $)
StripFences(text) ==
    LET t1 == SelectSeq(text, LAMBDA x : x # "fence_json")
    IN  IF t1 # <<>> /\ t1[Len(t1)] = "fence" THEN SubSeq(t1, 1, Len(t1) - 1) ELSE t1

\* re.findall(r'\{.*\}', text, re.DOTALL): the first match of the greedy
\* pattern runs from the first "{" to the last "}" of the text
HasMatch(text) ==
    \E a \in 1..Len(text), b \in 1..Len(text) : a < b /\ text[a] = "{" /\ text[b] = "}"

FirstMatch(text) ==
    LET a == CHOOSE n \in 1..Len(text) :
                 text[n] = "{" /\ \A m \in 1..(n - 1) : text[m] # "{"
        b == CHOOSE n \in 1..Len(text) :
                 text[n] = "}" /\ \A m \in (n + 1)..Len(text) : text[m] # "}"
    IN  SubSeq(text, a, b)

\* _extract_json_from_response: outcome is "returned" or the exception raised
_extract_json_from_response(response_text) ==
    LET text == StripFences(response_text)
    IN  IF HasMatch(text) THEN [outcome |-> "returned", text |-> FirstMatch(text)]
        ELSE IF JsonParses(text) THEN [outcome |-> "returned", text |-> text]
        ELSE [outcome |-> "ValueError", text |-> <<>>]

(************************* Python code extraction **************************)
\* A reply with a script is a sequence of lines: "fence_python" (the line that
\* opens a python-fenced block), "fence" (a line of three backquotes),
\* "marker" (the line '# Python code:'), "def_test" (a line that starts a
\* function 'def test_...'), "code" (a long line of code), "w" (a line of
\* prose), "blank" (an empty line); "python" is the word left of a
\* "fence_python" line when its backquotes are taken off.  No line but the
\* marker holds a '#'.
ScriptLines == {"fence_python", "fence", "marker", "def_test", "code", "w", "blank"}

ScriptTexts == UNION { [1..n -> ScriptLines] : n \in 1..MaxScriptLines }

\* characters of a line, its newline included
LineSize(line) ==
    CASE line = "code" -> 120
      [] line = "def_test" -> 30
      [] line = "marker" -> 15
      [] line = "fence_python" -> 10
      [] line = "python" -> 7
      [] line = "fence" -> 4
      [] line = "w" -> 20
      [] OTHER -> 1

RECURSIVE LinesSize(_)
LinesSize(text) ==
    IF text = <<>> THEN 0 ELSE LineSize(Head(text)) + LinesSize(Tail(text))

\* len(text): the last line has no newline
TextSize(text) == IF text = <<>> THEN 0 ELSE LinesSize(text) - 1

RECURSIVE StripLeft(_)
StripLeft(text) ==
    IF text # <<>> /\ Head(text) = "blank" THEN StripLeft(Tail(text)) ELSE text

RECURSIVE StripRight(_)
StripRight(text) ==
    IF text # <<>> /\ text[Len(text)] = "blank"
    THEN StripRight(SubSeq(text, 1, Len(text) - 1)) ELSE text

\* text.strip()
StripText(text) == StripRight(StripLeft(text))

\* the line starts with three backquotes
IsFence(line) == line \in {"fence", "fence_python"}

\* positions of the lines of a text that are of one of the given kinds
Positions(text, kinds) == { n \in 1..Len(text) : text[n] \in kinds }

SetMin(S) == CHOOSE n \in S : \A m \in S : n <= m

\* the lines from position a up to the first empty line or the end: .*?(?=\n\n|\Z)
UpToBlank(text, a) ==
    LET blanks == { n \in a..Len(text) : text[n] = "blank" }
    IN  IF blanks = {} THEN SubSeq(text, a, Len(text))
        ELSE SubSeq(text, a, SetMin(blanks) - 1)

\* re.findall(patterns[p], response_text, re.DOTALL), cut to its first entry:
\* <<>> when the pattern has no match, else the one-element sequence of what
\* the first match gives (its group, or all of it for the fourth pattern)
FirstFound(p, text) ==
    LET openers == IF p = 1 THEN Positions(text, {"fence_python"})
                   ELSE IF p = 2 THEN Positions(text, {"fence", "fence_python"})
                   ELSE IF p = 3 THEN Positions(text, {"marker"})
                   ELSE Positions(text, {"def_test"})
        closed == { a \in openers : \E b \in (a + 1)..Len(text) : IsFence(text[b]) }
    IN  IF p \in {1, 2}
        THEN IF closed = {} THEN <<>>
             ELSE LET a == SetMin(closed)
                      b == SetMin({ n \in (a + 1)..Len(text) : IsFence(text[n]) })
                      inner == SubSeq(text, a + 1, b - 1)
                  IN  << IF p = 2 /\ text[a] = "fence_python"
                         THEN << "python" >> \o inner ELSE inner >>
        ELSE IF openers = {} THEN <<>>
        ELSE IF p = 3 THEN << UpToBlank(text, SetMin(openers) + 1) >>
        ELSE << UpToBlank(text, SetMin(openers)) >>

\* patterns of _extract_python_code_from_response, by position in the list
PatternCount == 4

\* re.sub(r'^[^#\n]*\n', '', response_text.strip()): the first line goes
\* when it holds no '#' and is not the only line
CleanedResponse(text) ==
    LET t == StripText(text)
    IN  IF Len(t) >= 2 /\ t[1] # "marker" THEN Tail(t) ELSE t

\* _extract_python_code_from_response: the for loop (lines 132-133) only
\* assigns matches, the if statement of line 134 comes after it and sees the
\* matches of the last pattern
_extract_python_code_from_response(response_text) ==
    LET matches == FirstFound(PatternCount, response_text)
    IN  IF matches # <<>> /\ TextSize(StripText(matches[1])) > 100
        THEN StripText(matches[1])
        ELSE CleanedResponse(response_text)

\* mutant: the suggested_actions are not checked
_validate_generated_locator_NoActions(locator_data) ==
    /\ {"element_name", "element_type", "primary_locator"} \subseteq locator_data.keys
    /\ PrimaryValid(locator_data.primary_locator)
    /\ locator_data.element_type \in element_types

_validate_generated_locator(locator_data) ==
    IF \E field \in {"element_name", "element_type", "primary_locator"} :
           field \notin locator_data.keys
    THEN FALSE
    ELSE IF ~PrimaryValid(locator_data.primary_locator) THEN FALSE
    ELSE IF locator_data.element_type \notin element_types THEN FALSE
    ELSE IF "suggested_actions" \in locator_data.keys
            /\ ~ActionsValid(locator_data.suggested_actions)
    THEN FALSE
    ELSE TRUE

RECURSIVE Count(_, _)
\* value.count(ch)
Count(value, ch) ==
    IF value = <<>> THEN 0
    ELSE (IF Head(value) = ch THEN 1 ELSE 0) + Count(Tail(value), ch)

\* '//' in value
HasDoubleSlash(value) ==
    \E k \in 1..(Len(value) - 1) : value[k] = "/" /\ value[k + 1] = "/"

\* locator.get('strategy', ''), locator.get('value', '')
GetStrategy(locator) == IF "strategy" \in locator.keys THEN locator.strategy ELSE ""
GetValue(locator) == IF "value" \in locator.keys THEN locator.value ELSE V_empty

\* mutant: the id and class_name rules look for a single slash
_assess_locator_quality_SingleSlash(locator) ==
    LET strategy == GetStrategy(locator)
        value == GetValue(locator)
    IN  IF strategy = "id" /\ value # <<>> /\ Count(value, "/") = 0 THEN "excellent"
        ELSE IF strategy = "accessibility_id" /\ value # <<>> THEN "excellent"
        ELSE IF strategy = "class_name" /\ value # <<>> /\ Count(value, "/") = 0 THEN "good"
        ELSE IF strategy = "xpath" /\ Count(value, "/") <= 3 THEN "good"
        ELSE IF strategy = "xpath" /\ Count(value, "/") <= 6 THEN "acceptable"
        ELSE "poor"

\* mutant: the two xpath tiers are swapped
_assess_locator_quality_DepthSwapped(locator) ==
    LET strategy == GetStrategy(locator)
        value == GetValue(locator)
    IN  IF strategy = "id" /\ value # <<>> /\ ~HasDoubleSlash(value) THEN "excellent"
        ELSE IF strategy = "accessibility_id" /\ value # <<>> THEN "excellent"
        ELSE IF strategy = "class_name" /\ value # <<>> /\ ~HasDoubleSlash(value) THEN "good"
        ELSE IF strategy = "xpath" /\ Count(value, "/") <= 3 THEN "acceptable"
        ELSE IF strategy = "xpath" /\ Count(value, "/") <= 6 THEN "good"
        ELSE "poor"

_assess_locator_quality(locator) ==
    LET strategy == GetStrategy(locator)
        value == GetValue(locator)
    IN  IF strategy = "id" /\ value # <<>> /\ ~HasDoubleSlash(value) THEN "excellent"
        ELSE IF strategy = "accessibility_id" /\ value # <<>> THEN "excellent"
        ELSE IF strategy = "class_name" /\ value # <<>> /\ ~HasDoubleSlash(value) THEN "good"
        ELSE IF strategy = "xpath" /\ Count(value, "/") <= 3 THEN "good"
        ELSE IF strategy = "xpath" /\ Count(value, "/") <= 6 THEN "acceptable"
        ELSE "poor"

\* strategy_scores.get(strategy, 0), in hundredths
StrategyScore(strategy) ==
    CASE strategy = "id" -> 40
      [] strategy = "accessibility_id" -> 35
      [] strategy = "class_name" -> 20
      [] strategy = "android_uiautomator" -> 15
      [] strategy = "xpath" -> 10
      [] strategy = "name" -> 10
      [] strategy = "tag_name" -> 5
      [] OTHER -> 0

Min(a, b) == IF a <= b THEN a ELSE b

\* mutant: the result is not capped at 1.0
_calculate_confidence_NoCap(locator_data, page_source) ==
    LET fallback_count == IF "fallback_locators" \in locator_data.keys
                          THEN Len(locator_data.fallback_locators) ELSE 0
        content_desc == IF "accessibility_info" \in locator_data.keys
                        THEN locator_data.accessibility_info.content_desc ELSE ""
    IN  50 + StrategyScore(locator_data.primary_locator.strategy)
           + Min(fallback_count * 5, 15)
           + (IF content_desc # "" THEN 10 ELSE 0)

\* mutant: the fallback boost is not capped at 0.15
_calculate_confidence_LinearBoost(locator_data, page_source) ==
    LET fallback_count == IF "fallback_locators" \in locator_data.keys
                          THEN Len(locator_data.fallback_locators) ELSE 0
        content_desc == IF "accessibility_info" \in locator_data.keys
                        THEN locator_data.accessibility_info.content_desc ELSE ""
    IN  Min(50 + StrategyScore(locator_data.primary_locator.strategy)
               + fallback_count * 5
               + (IF content_desc # "" THEN 10 ELSE 0),
            100)

\* confidence in hundredths; called only on data whose primary_locator has a
\* strategy; page_source is a parameter the body never reads
_calculate_confidence(locator_data, page_source) ==
    LET fallback_count == IF "fallback_locators" \in locator_data.keys
                          THEN Len(locator_data.fallback_locators) ELSE 0
        content_desc == IF "accessibility_info" \in locator_data.keys
                        THEN locator_data.accessibility_info.content_desc ELSE ""
    IN  Min(50 + StrategyScore(locator_data.primary_locator.strategy)
               + Min(fallback_count * 5, 15)
               + (IF content_desc # "" THEN 10 ELSE 0),
            100)

\* the exception _calculate_confidence raises on data whose primary_locator
\* has a strategy, "" if none: len(None) when 'fallback_locators' is present
\* as JSON null (TypeError), None.get('content_desc') when 'accessibility_info'
\* is present as JSON null (AttributeError)
ConfidenceRaises(locator_data) ==
    IF "fallback_locators" \in locator_data.keys
       /\ locator_data.fallback_locators = NullList
    THEN "TypeError"
    ELSE IF "accessibility_info" \in locator_data.keys
            /\ locator_data.accessibility_info = NullInfo
    THEN "AttributeError"
    ELSE ""

\* page_source[:4000] and merged_xml[:8000]: the snapshot budgets, in characters
ELEMENT_SOURCE_BUDGET == 4000
SCREEN_SOURCE_BUDGET == 8000

\* characters of the request besides its arguments: LOCATOR_GENERATION_PROMPT
\* with empty arguments (1317) plus json.dumps(schema_template, indent=2) with
\* empty arguments (762); complete_screen_prompt with empty arguments
ELEMENT_PROMPT_TEXT == 2079
SCREEN_PROMPT_TEXT == 2320

\* A page source (UI snapshot) is its length in characters, the methods never
\* look into it: a small one (get_page_source returns none under 50
\* characters), one over the budget of analyze_element, one over both budgets.
\* The empty string is the page source that is not given.
PageSources == {64, ELEMENT_SOURCE_BUDGET + 1, SCREEN_SOURCE_BUDGET + 1}
NoPageSource == 0

\* A target description is its length in characters too ("login_button", and
\* a long one); descriptions and contexts are plain ASCII without characters
\* json.dumps escapes
TargetElements == {12, 5 * ELEMENT_SOURCE_BUDGET}

\* page_source[:4000] if len(page_source) > 4000 else page_source
TruncatedSource(page_source) ==
    IF page_source > ELEMENT_SOURCE_BUDGET THEN ELEMENT_SOURCE_BUDGET ELSE page_source

\* merged_xml[:8000]
TruncatedXml(merged_xml) ==
    IF merged_xml > SCREEN_SOURCE_BUDGET THEN SCREEN_SOURCE_BUDGET ELSE merged_xml

\* len(prompt) of analyze_element: the template holds the description, the
\* context and the truncated source once, the schema template appended to it
\* holds the description and the context once more
ElementPromptSize(target_element, screen_context, page_source) ==
    ELEMENT_PROMPT_TEXT + 2 * target_element + 2 * Len(screen_context)
        + TruncatedSource(page_source)

\* len(formatted_prompt) of analyze_complete_screen: the template holds the
\* context twice and the truncated XML once
ScreenPromptSize(merged_xml, screen_context) ==
    SCREEN_PROMPT_TEXT + 2 * Len(screen_context) + TruncatedXml(merged_xml)

\* LocatorAnalysis(...) built by analyze_element from validated data
LocatorAnalysis(locator_data, page_source) ==
    [ element_name |-> locator_data.element_name,
      primary_locator |-> locator_data.primary_locator,
      fallback_locators |-> IF "fallback_locators" \in locator_data.keys
                            THEN locator_data.fallback_locators ELSE <<>>,
      element_type |-> locator_data.element_type,
      suggested_actions |-> IF "suggested_actions" \in locator_data.keys
                            THEN locator_data.suggested_actions.items ELSE <<>>,
      quality_score |-> _assess_locator_quality(locator_data.primary_locator),
      accessibility_info |-> IF "accessibility_info" \in locator_data.keys
                             THEN locator_data.accessibility_info
                             ELSE [content_desc |-> ""],
      confidence |-> _calculate_confidence(locator_data, page_source) ]

NoRecord == LocatorAnalysis(NoCandidate, NoPageSource)

\* frame of the running / last call on the generator: op is the method,
\* outcome is "none", "pending", "returned" or the error raised, calls the
\* calls the method made in order, record / analyses / quality / confidence /
\* extracted what it returned, locator_data / text / page_source /
\* screen_context / elements / target_element its inputs, embedded the length
\* of the snapshot in the request it sent and prompt_size that of the request;
\* steps is the test case of generate_locators_for_test_case, attempts the
\* analyze_element calls it made, locators the mapping it returned or the one
\* save_locators_schema_compliant was given, file the 'element_locators' the
\* latter wrote
NoAnalysis == [op |-> "", outcome |-> "none", locator_data |-> NoCandidate,
               valid |-> FALSE, record |-> NoRecord, calls |-> <<>>,
               text |-> <<>>, extracted |-> <<>>, page_source |-> NoPageSource,
               quality |-> "", confidence |-> 0, screen_context |-> "",
               elements |-> <<>>, analyses |-> <<>>,
               target_element |-> 0, embedded |-> 0, prompt_size |-> 0,
               steps |-> <<>>, attempts |-> <<>>, locators |-> <<>>, file |-> <<>>]

Init ==
    /\ driver = FALSE
    /\ performance_metrics = <<>>
    /\ audit_trail = << Audit("framework_initialization", "SUCCESS") >>
    /\ pc = "idle"
    /\ req = NoReq
    /\ i = 1
    /\ lookups = <<>>
    /\ result = NoResult
    /\ scroll = NoScroll
    /\ init = NoInit
    /\ analysis = NoAnalysis

(************************* direct calls of the pure methods ****************)
\* locator values: every string of at most MaxValueLen characters over a
\* letter and the slash
Values == UNION { [1..n -> {"a", "/"}] : n \in 0..MaxValueLen }

\* locators handed to _assess_locator_quality: every strategy of the schema
\* and one outside it with every value, and locators without a 'value' key
AssessInputs ==
    { Loc(st, v) : st \in supported_strategies \cup {"css"}, v \in Values }
    \cup { [shape |-> "object", keys |-> {"strategy"}, strategy |-> st, value |-> V_empty] :
               st \in supported_strategies \cup {"css"} }

\* candidates handed to _calculate_confidence: every strategy of the schema and
\* one outside it, no 'fallback_locators' key or 0..MaxFallbacks fallbacks, no
\* 'accessibility_info' key or an empty or non-empty content_desc
ConfidenceInputs ==
    { [ keys |-> KeysOf(TRUE, "button", Loc(st, V_btn), AbsentActions, fl, ai),
        element_name |-> "login_button",
        element_type |-> "button",
        primary_locator |-> Loc(st, V_btn),
        suggested_actions |-> AbsentActions,
        fallback_locators |-> fl,
        accessibility_info |-> ai ] :
      st \in supported_strategies \cup {"css"},
      fl \in {AbsentList}
             \cup { [k \in 1..n |-> Loc("xpath", V_path2)] : n \in 0..MaxFallbacks },
      ai \in {AbsentInfo, [content_desc |-> ""], [content_desc |-> "Login button"]} }

\* the calls a caller can have made on the generator, not yet executed
PendingCalls ==
    { [NoAnalysis EXCEPT !.op = "_validate_generated_locator", !.outcome = "pending",
                         !.locator_data = d] : d \in LocatorData }
    \cup { [NoAnalysis EXCEPT !.op = "_assess_locator_quality", !.outcome = "pending",
                              !.locator_data.primary_locator = l] : l \in AssessInputs }
    \cup { [NoAnalysis EXCEPT !.op = "_calculate_confidence", !.outcome = "pending",
                              !.locator_data = d, !.page_source = ps] :
               d \in ConfidenceInputs, ps \in PageSources }
    \cup { [NoAnalysis EXCEPT !.op = "_extract_json_from_response", !.outcome = "pending",
                              !.text = t] : t \in ReplyTexts }
    \cup { [NoAnalysis EXCEPT !.op = "_extract_python_code_from_response",
                              !.outcome = "pending", !.text = t] : t \in ScriptTexts }

Pending(op) == pc = "idle" /\ analysis.op = op /\ analysis.outcome = "pending"

Executed(op) == analysis.op = op /\ analysis.outcome # "pending"

\* _validate_generated_locator(locator_data) runs: lines 180-207
validate_generated_locator ==
    /\ Pending("_validate_generated_locator")
    /\ analysis' =
           [analysis EXCEPT
               !.outcome = IF ValidateEscapes(analysis.locator_data) # ""
                           THEN ValidateEscapes(analysis.locator_data)
                           ELSE IF _validate_generated_locator(analysis.locator_data)
                           THEN "True" ELSE "False",
               !.valid = /\ ValidateEscapes(analysis.locator_data) = ""
                         /\ _validate_generated_locator(analysis.locator_data)]
    /\ pc' = "done"
    /\ UNCHANGED <<driver, performance_metrics, audit_trail, req, i, lookups, result,
                   scroll, init>>

\* _assess_locator_quality(locator) runs: lines 161-178
assess_locator_quality ==
    /\ Pending("_assess_locator_quality")
    /\ analysis' =
           [analysis EXCEPT
               !.outcome = "returned",
               !.quality = _assess_locator_quality(analysis.locator_data.primary_locator)]
    /\ pc' = "done"
    /\ UNCHANGED <<driver, performance_metrics, audit_trail, req, i, lookups, result,
                   scroll, init>>

\* _calculate_confidence(locator_data, page_source) runs: lines 424-444
calculate_confidence ==
    /\ Pending("_calculate_confidence")
    /\ analysis' =
           [analysis EXCEPT
               !.outcome = "returned",
               !.confidence = _calculate_confidence(analysis.locator_data,
                                                    analysis.page_source)]
    /\ pc' = "done"
    /\ UNCHANGED <<driver, performance_metrics, audit_trail, req, i, lookups, result,
                   scroll, init>>

\* _extract_json_from_response(response_text) runs: lines 140-159
extract_json_from_response ==
    /\ Pending("_extract_json_from_response")
    /\ analysis' =
           [analysis EXCEPT
               !.outcome = _extract_json_from_response(analysis.text).outcome,
               !.extracted = _extract_json_from_response(analysis.text).text]
    /\ pc' = "done"
    /\ UNCHANGED <<driver, performance_metrics, audit_trail, req, i, lookups, result,
                   scroll, init>>

\* _extract_python_code_from_response(response_text) runs: script_generator.py
\* lines 122-140
extract_python_code_from_response ==
    /\ Pending("_extract_python_code_from_response")
    /\ analysis' =
           [analysis EXCEPT
               !.outcome = "returned",
               !.extracted = _extract_python_code_from_response(analysis.text)]
    /\ pc' = "done"
    /\ UNCHANGED <<driver, performance_metrics, audit_trail, req, i, lookups, result,
                   scroll, init>>

(************************* find_element_safe *******************************)
\* what one strategy lookup (WebDriverWait.until + is_displayed) can produce:
\*   visible  an element is present and is_displayed() is true
\*   hidden   an element is present and is_displayed() is false
\*   timeout  TimeoutException or NoSuchElementException is raised
\*   error    any other exception is raised by the lookup or by is_displayed()
TrialOutcomes == {"visible", "hidden", "timeout", "error"}

\* what the text lookup (WebDriverWait.until on contains(@text, value)) can produce
TextOutcomes == {"found_displayed", "found_hidden", "timeout", "error"}

\* mutant: the is_displayed() test is left out
TrialAccepts_AnyElement(outcome) == outcome \in {"visible", "hidden"}

\* if element and element.is_displayed(): return element
TrialAccepts(outcome) == outcome = "visible"

\* element falsy or not displayed: next iteration;
\* except (TimeoutException, NoSuchElementException): continue
TrialAbsorbed(outcome) == outcome \in {"hidden", "timeout"}

\* if element: return element            (text fallback, no is_displayed call)
TextAccepts(outcome) == outcome \in {"found_displayed", "found_hidden"}

\* if strategy not in strategies: continue
Mapped(strategy) == strategy \in Range(strategies)

\* mutant: the loop stops one entry early
LoopExhausted_Early(idx, order) == idx > Len(order) - 1

\* for strategy in strategy_order: the loop has run out of entries
LoopExhausted(idx, order) == idx > Len(order)

\* mutant: the message names the strategy instead of the value
ElementNotFound_NamesStrategy(r) ==
    [kind |-> "NoSuchElementException", via |-> "", strategy |-> "", displayed |-> FALSE,
     value |-> r.locator_strategy]

\* raise NoSuchElementException(f"Element not found: {locator_value}")
ElementNotFound(r) ==
    [kind |-> "NoSuchElementException", via |-> "", strategy |-> "", displayed |-> FALSE,
     value |-> r.locator_value]

\* where control goes when find_element_safe returns or raises
FesExit == IF scroll.active THEN "scroll_ret" ELSE "done"

\* mutant: the metrics list is replaced by the new entry
Track_Replace(operation, success) == << Metric(operation, success) >>

\* the with-block of _performance_tracking closes: one metric is appended
Track(operation, success) == Append(performance_metrics, Metric(operation, success))

\* entry of find_element_safe with a driver session: lines 267-281
FesEnter(locator_strategy, locator_value, timeout, fallback_locators) ==
    /\ req' = [locator_strategy |-> locator_strategy, locator_value |-> locator_value,
               timeout |-> timeout, fallback_locators |-> fallback_locators]
    /\ i' = 1
    /\ lookups' = <<>>
    /\ result' = NoResult
    /\ pc' = "fes_loop"

\* the single thread of control is between two calls
Ready == pc = "idle" /\ Len(performance_metrics) < MaxMetrics

\* a caller invokes find_element_safe(locator_strategy, locator_value, timeout)
\* for a record whose fallback locators are fallback_locators
Call_find_element_safe(locator_strategy, locator_value, timeout, fallback_locators) ==
    /\ Ready
    /\ scroll' = NoScroll
    /\ IF ~driver
       THEN /\ req' = [locator_strategy |-> locator_strategy,
                       locator_value |-> locator_value, timeout |-> timeout,
                       fallback_locators |-> fallback_locators]
            /\ i' = 1
            /\ lookups' = <<>>
            /\ result' = [NoResult EXCEPT !.kind = "None"]
            /\ pc' = "done"
       ELSE FesEnter(locator_strategy, locator_value, timeout, fallback_locators)
    /\ init' = NoInit
    /\ analysis' = NoAnalysis
    /\ UNCHANGED <<driver, performance_metrics, audit_trail>>

\* for strategy in strategy_order: if strategy not in strategies: continue
fes_Skip ==
    /\ pc = "fes_loop"
    /\ ~LoopExhausted(i, StrategyOrder(req.locator_strategy))
    /\ ~Mapped(StrategyOrder(req.locator_strategy)[i])
    /\ i' = i + 1
    /\ UNCHANGED <<driver, performance_metrics, audit_trail, pc, req, lookups, result, scroll,
                   init, analysis>>

\* one iteration of the loop for a mapped strategy: lines 286-294
fes_Trial(outcome) ==
    LET order == StrategyOrder(req.locator_strategy)
        strategy == order[i]
        lookup == [kind |-> "strategy", strategy |-> strategy,
                   value |-> req.locator_value,
                   wait |-> TrialWait(req.timeout, order), outcome |-> outcome]
    IN  /\ pc = "fes_loop"
        /\ ~LoopExhausted(i, order)
        /\ Mapped(strategy)
        /\ lookups' = Append(lookups, lookup)
        /\ IF TrialAccepts(outcome)
           THEN /\ result' = [kind |-> "element", via |-> "strategy",
                              strategy |-> strategy, displayed |-> TRUE,
                              value |-> req.locator_value]
                /\ performance_metrics' = Track("element_detection", TRUE)
                /\ pc' = FesExit
                /\ i' = i
           ELSE IF TrialAbsorbed(outcome)
           THEN /\ i' = i + 1
                /\ UNCHANGED <<result, performance_metrics, pc>>
           ELSE /\ result' = [kind |-> "WebDriverException", via |-> "strategy",
                              strategy |-> strategy, displayed |-> FALSE,
                              value |-> req.locator_value]
                /\ performance_metrics' = Track("element_detection", FALSE)
                /\ pc' = FesExit
                /\ i' = i
        /\ UNCHANGED <<driver, audit_trail, req, scroll, init, analysis>>

\* the loop is exhausted: text fallback (lines 296-305), then the raise of line 307
fes_TextFallback(outcome) ==
    LET lookup == [kind |-> "text", strategy |-> "xpath", value |-> req.locator_value,
                   wait |-> TEXT_FALLBACK_TIMEOUT, outcome |-> outcome]
    IN  /\ pc = "fes_loop"
        /\ LoopExhausted(i, StrategyOrder(req.locator_strategy))
        /\ lookups' = Append(lookups, lookup)
        /\ performance_metrics' = Track("element_detection", TRUE)
        /\ IF TextAccepts(outcome)
           THEN result' = [kind |-> "element", via |-> "text", strategy |-> "xpath",
                           displayed |-> (outcome = "found_displayed"),
                           value |-> req.locator_value]
           ELSE result' = ElementNotFound(req)
        /\ pc' = FesExit
        /\ UNCHANGED <<driver, audit_trail, req, i, scroll, init, analysis>>

(************************* scroll_to_element ******************************)
\* a caller invokes scroll_to_element(locator_strategy, locator_value, max_scrolls)
Call_scroll_to_element(locator_strategy, locator_value, max_scrolls) ==
    /\ Ready
    /\ IF ~driver
       THEN /\ scroll' = [NoScroll EXCEPT !.max_scrolls = max_scrolls, !.outcome = "None"]
            /\ req' = NoReq
            /\ i' = 1
            /\ lookups' = <<>>
            /\ result' = NoResult
            /\ pc' = "done"
       ELSE /\ scroll' = [active |-> TRUE, max_scrolls |-> max_scrolls, attempt |-> 0,
                          events |-> <<>>, outcome |-> "pending"]
            /\ FesEnter(locator_strategy, locator_value, SCROLL_ATTEMPT_TIMEOUT, <<>>)
    /\ init' = NoInit
    /\ analysis' = NoAnalysis
    /\ UNCHANGED <<driver, performance_metrics, audit_trail>>

\* the find_element_safe call of one loop iteration has returned or raised:
\* lines 319-327
scroll_Return ==
    /\ pc = "scroll_ret"
    /\ IF result.kind = "element"
       THEN /\ scroll' = [scroll EXCEPT !.active = FALSE, !.outcome = "element",
                                        !.events = Append(@, "found")]
            /\ pc' = "done"
            /\ UNCHANGED <<req, i, lookups, result>>
       ELSE IF result.kind = "NoSuchElementException"
       THEN IF scroll.attempt < scroll.max_scrolls
            THEN /\ scroll' = [scroll EXCEPT !.attempt = @ + 1,
                                             !.events = @ \o <<"notfound", "swipe">>]
                 /\ FesEnter(req.locator_strategy, req.locator_value,
                             SCROLL_ATTEMPT_TIMEOUT, <<>>)
            ELSE /\ scroll' = [scroll EXCEPT !.active = FALSE,
                                             !.outcome = "NoSuchElementException",
                                             !.events = Append(@, "notfound")]
                 /\ pc' = "done"
                 /\ UNCHANGED <<req, i, lookups, result>>
       ELSE /\ scroll' = [scroll EXCEPT !.active = FALSE, !.outcome = result.kind,
                                        !.events = Append(@, "error")]
            /\ pc' = "done"
            /\ UNCHANGED <<req, i, lookups, result>>
    /\ UNCHANGED <<driver, performance_metrics, audit_trail, init, analysis>>

(************************* initialize_driver / close_driver ****************)
\* what one attempt of initialize_driver can meet:
\*   ok              the session is created and passes the health check
\*   connect_failed  webdriver.Remote raises, self.driver is not assigned
\*   unhealthy       the session is assigned to self.driver, the health check raises
InitOutcomes == {"ok", "connect_failed", "unhealthy"}

\* mutant: the backoff does not grow with the attempt
Backoff_Fixed(attempt) == 2

\* time.sleep((attempt + 1) * 2)
Backoff(attempt) == (attempt + 1) * 2

Call_initialize_driver ==
    /\ Ready
    /\ init' = [attempt |-> 0, sleeps |-> <<>>, returned |-> "pending"]
    /\ pc' = "init_loop"
    /\ req' = NoReq /\ i' = 1 /\ lookups' = <<>> /\ result' = NoResult
    /\ scroll' = NoScroll /\ analysis' = NoAnalysis
    /\ UNCHANGED <<driver, performance_metrics, audit_trail>>

\* one iteration of the retry loop: lines 208-232
init_Attempt(outcome) ==
    /\ pc = "init_loop"
    /\ init.attempt < MAX_RETRY_ATTEMPTS
    /\ driver' = IF outcome = "connect_failed" THEN driver ELSE TRUE
    /\ performance_metrics' = Track("driver_initialization", outcome = "ok")
    /\ IF outcome = "ok"
       THEN /\ audit_trail' = Append(audit_trail, Audit("driver_initialization", "SUCCESS"))
            /\ init' = [init EXCEPT !.returned = "True"]
            /\ pc' = "done"
       ELSE IF init.attempt < MAX_RETRY_ATTEMPTS - 1
       THEN /\ init' = [init EXCEPT !.sleeps = Append(@, Backoff(init.attempt)),
                                   !.attempt = @ + 1]
            /\ UNCHANGED <<audit_trail, pc>>
       ELSE /\ audit_trail' = Append(audit_trail, Audit("driver_initialization", "FAILED"))
            /\ init' = [init EXCEPT !.returned = "False"]
            /\ pc' = "done"
    /\ UNCHANGED <<req, i, lookups, result, scroll, analysis>>

\* close_driver with a session: quit() succeeds or raises; the session is dropped
Call_close_driver(quit_ok) ==
    /\ pc = "idle"
    /\ driver
    /\ driver' = FALSE
    /\ audit_trail' = IF quit_ok THEN Append(audit_trail, Audit("driver_closure", "SUCCESS"))
                      ELSE audit_trail
    /\ pc' = "done"
    /\ req' = NoReq /\ i' = 1 /\ lookups' = <<>> /\ result' = NoResult
    /\ scroll' = NoScroll /\ init' = NoInit /\ analysis' = NoAnalysis
    /\ UNCHANGED performance_metrics

(************************* analyze_element *********************************)
\* what the text-generation call and the JSON extraction can produce:
\*   service_error   generate_content raises
\*   empty           response.text is empty
\*   no_json         _extract_json_from_response raises ValueError
\*   malformed_json  json.loads raises on the extracted text
\*   json_object     json.loads returns the object `data`
Replies ==
    { [kind |-> k, data |-> NoCandidate] :
          k \in {"service_error", "empty", "no_json", "malformed_json"} }
    \cup { [kind |-> "json_object", data |-> d] : d \in LocatorData }

\* mutant: the validation result is not looked at
AnalysisError_NoValidation(reply) ==
    CASE reply.kind = "service_error" -> "InferenceError"
      [] reply.kind = "empty" -> "EmptyResponse"
      [] reply.kind = "no_json" -> "MalformedResponse"
      [] reply.kind = "malformed_json" -> "JSONDecodeError"
      [] OTHER -> ""

\* the exception the try block of analyze_element raises for a reply, "" if none
AnalysisError(reply) ==
    CASE reply.kind = "service_error" -> "InferenceError"
      [] reply.kind = "empty" -> "EmptyResponse"
      [] reply.kind = "no_json" -> "MalformedResponse"
      [] reply.kind = "malformed_json" -> "JSONDecodeError"
      [] OTHER -> IF ValidateEscapes(reply.data) # "" THEN ValidateEscapes(reply.data)
                  ELSE IF _validate_generated_locator(reply.data) THEN ""
                  ELSE "SchemaViolation"

\* the calls the try blocks make up to the point a reply lets them get to
CallsUpTo(reply) ==
    CASE reply.kind = "service_error" -> << "generate_content" >>
      [] reply.kind = "empty" -> << "generate_content" >>
      [] reply.kind = "no_json" -> << "generate_content", "_extract_json_from_response" >>
      [] OTHER -> << "generate_content", "_extract_json_from_response", "json.loads" >>

\* mutant: a failed generate_content call is made a second time
AnalysisCalls_Retry(reply) ==
    (IF reply.kind = "service_error" THEN << "generate_content" >> ELSE <<>>)
    \o CallsUpTo(reply)
    \o (IF reply.kind # "json_object" THEN <<>>
        ELSE << "_validate_generated_locator" >>
             \o (IF AnalysisError(reply) # "" THEN <<>>
                 ELSE << "_assess_locator_quality", "_calculate_confidence" >>))

\* the calls the try block of analyze_element makes for a reply, in order
AnalysisCalls(reply) ==
    CallsUpTo(reply)
    \o (IF reply.kind # "json_object" THEN <<>>
        ELSE << "_validate_generated_locator" >>
             \o (IF AnalysisError(reply) # "" THEN <<>>
                 ELSE << "_assess_locator_quality", "_calculate_confidence" >>))

\* analyze_element(target_element, screen_context, page_source): lines 335-422.
\* page_source_given: the caller passed a page source; source_ok: the driver
\* returns a usable page source when it is fetched; page_source: the page
\* source passed or fetched
Call_analyze_element(target_element, screen_context, page_source_given, page_source, source_ok, reply) ==
    LET err == AnalysisError(reply)
        Frame == [NoAnalysis EXCEPT !.op = "analyze_element",
                                    !.target_element = target_element,
                                    !.screen_context = screen_context]
        Sent == [Frame EXCEPT
                    !.page_source = page_source,
                    !.embedded = TruncatedSource(page_source),
                    !.prompt_size = ElementPromptSize(target_element, screen_context,
                                                      page_source)]
        fetched == IF page_source_given THEN <<>>
                   ELSE << Metric("page_source_retrieval", source_ok) >>
    IN  /\ Ready
        /\ page_source_given => source_ok
        /\ pc' = "done"
        /\ IF ~page_source_given /\ ~driver
           THEN /\ analysis' = [Frame EXCEPT !.outcome = "ValueError"]
                /\ performance_metrics' = Track("element_analysis", FALSE)
                /\ UNCHANGED audit_trail
           ELSE IF ~source_ok
           THEN /\ analysis' = [Frame EXCEPT !.outcome = "WebDriverException"]
                /\ performance_metrics' =
                       performance_metrics \o fetched
                       \o << Metric("element_analysis", FALSE) >>
                /\ UNCHANGED audit_trail
           ELSE IF err # ""
           THEN /\ analysis' = [Sent EXCEPT
                                   !.outcome = err, !.locator_data = reply.data,
                                   !.calls = AnalysisCalls(reply)]
                /\ audit_trail' = Append(audit_trail, Audit("locator_generation", "FAILED"))
                /\ performance_metrics' =
                       performance_metrics \o fetched
                       \o << Metric("element_analysis", FALSE) >>
           ELSE /\ analysis' = [Sent EXCEPT
                                   !.outcome = "returned", !.locator_data = reply.data,
                                   !.valid = TRUE,
                                   !.record = LocatorAnalysis(reply.data, page_source),
                                   !.calls = AnalysisCalls(reply)]
                /\ audit_trail' = Append(audit_trail, Audit("locator_generation", "SUCCESS"))
                /\ performance_metrics' =
                       performance_metrics \o fetched
                       \o << Metric("element_analysis", TRUE) >>
        /\ req' = NoReq /\ i' = 1 /\ lookups' = <<>> /\ result' = NoResult
        /\ scroll' = NoScroll /\ init' = NoInit
        /\ UNCHANGED driver

(************************* analyze_complete_screen *************************)
\* element_data objects a reply reports under 'screen_elements': the candidate
\* fields and the 'scroll_position' tag, "absent" when the key is missing
ScreenCandidate(et, pl, fl, ai) ==
    [ keys |-> KeysOf(TRUE, et, pl, AbsentActions, fl, ai),
      element_name |-> "login_button",
      element_type |-> et,
      primary_locator |-> pl,
      suggested_actions |-> AbsentActions,
      fallback_locators |-> fl,
      accessibility_info |-> ai ]

\* the well-formed element without any optional sub-field
PlainCandidate == ScreenCandidate("button", Loc("id", V_btn), AbsentList, AbsentInfo)

\* one with element type and strategy outside the schema, one without
\* primary_locator, one with all optional collections given, and two whose
\* optional collection is JSON null
ScreenCandidates ==
    { PlainCandidate,
      ScreenCandidate("slider", Loc("css", V_btn), AbsentList, AbsentInfo),
      ScreenCandidate("button", AbsentLocator, AbsentList, AbsentInfo),
      ScreenCandidate("button", Loc("id", V_btn), << Loc("xpath", V_path2) >>,
                      [content_desc |-> "Login button"]),
      ScreenCandidate("button", Loc("id", V_btn), NullList, AbsentInfo),
      ScreenCandidate("button", Loc("id", V_btn), AbsentList, NullInfo) }

ScrollPositions == {"absent", "top", "bottom"}

\* the plain element at every scroll position, the others at the top
ScreenElements ==
    { [data |-> PlainCandidate, scroll_position |-> sp] : sp \in ScrollPositions }
    \cup { [data |-> d, scroll_position |-> "top"] : d \in ScreenCandidates }

ScreenContexts == {"complete_screen", "login"}

\* analyze_element("login_button", "login", <a small page source>)
NominalRequest(target_element, screen_context, page_source) ==
    /\ target_element = 12
    /\ screen_context = "login"
    /\ page_source = 64

\* replies to analyze_complete_screen: the failures, and a JSON object whose
\* 'screen_elements' lists up to MaxElements elements in order
ScreenReplies ==
    { [kind |-> k, elements |-> <<>>] :
          k \in {"service_error", "empty", "no_json", "malformed_json"} }
    \cup { [kind |-> "json_object", elements |-> es] :
              es \in UNION { [1..n -> ScreenElements] : n \in 0..MaxElements } }

\* the exception one iteration of the loop over screen_elements raises, "" if
\* none: element_data['primary_locator'] (KeyError), locator.get on a value
\* that is no object (AttributeError), ['strategy'] in _calculate_confidence
\* (KeyError), the rest of _calculate_confidence,
\* element_data['element_name'] / ['element_type'] (KeyError)
ScreenElementError(e) ==
    IF "primary_locator" \notin e.data.keys THEN "KeyError"
    ELSE IF e.data.primary_locator.shape # "object" THEN "AttributeError"
    ELSE IF "strategy" \notin e.data.primary_locator.keys THEN "KeyError"
    ELSE IF ConfidenceRaises(e.data) # "" THEN ConfidenceRaises(e.data)
    ELSE IF "element_name" \notin e.data.keys THEN "KeyError"
    ELSE IF "element_type" \notin e.data.keys THEN "KeyError"
    ELSE ""

\* the calls one iteration makes
ScreenElementCalls(e) ==
    IF "primary_locator" \notin e.data.keys THEN <<>>
    ELSE IF e.data.primary_locator.shape # "object" THEN << "_assess_locator_quality" >>
    ELSE << "_assess_locator_quality", "_calculate_confidence" >>

\* the iterations the loop runs: up to and including the first that raises
Iterations(elements) ==
    { k \in 1..Len(elements) : \A m \in 1..(k - 1) : ScreenElementError(elements[m]) = "" }

\* the exception analyze_complete_screen raises for a reply, "" if none
ScreenError(reply) ==
    CASE reply.kind = "service_error" -> "InferenceError"
      [] reply.kind = "empty" -> "EmptyResponse"
      [] reply.kind = "no_json" -> "MalformedResponse"
      [] reply.kind = "malformed_json" -> "JSONDecodeError"
      [] OTHER -> IF \A k \in Iterations(reply.elements) :
                         ScreenElementError(reply.elements[k]) = ""
                  THEN ""
                  ELSE LET k == CHOOSE n \in Iterations(reply.elements) :
                                    ScreenElementError(reply.elements[n]) # ""
                       IN  ScreenElementError(reply.elements[k])

RECURSIVE LoopCalls(_)
LoopCalls(elements) ==
    IF elements = <<>> THEN <<>>
    ELSE ScreenElementCalls(Head(elements))
         \o (IF ScreenElementError(Head(elements)) # "" THEN <<>>
             ELSE LoopCalls(Tail(elements)))

\* the calls analyze_complete_screen makes for a reply, in order
ScreenCalls(reply) == CallsUpTo(reply) \o LoopCalls(reply.elements)

\* mutant: the tag is put in front of the context
ScreenContextOf_TagFirst(screen_context, e) ==
    << IF e.scroll_position = "absent" THEN "unknown" ELSE e.scroll_position,
       "_", screen_context >>

\* f"{screen_context}_{element_data.get('scroll_position', 'unknown')}", as the
\* sequence of the pieces the string is put together from
ScreenContextOf(screen_context, e) ==
    << screen_context, "_",
       IF e.scroll_position = "absent" THEN "unknown" ELSE e.scroll_position >>

\* analyze_complete_screen(merged_xml, screen_context): lines 220-320
Call_analyze_complete_screen(merged_xml, screen_context, reply) ==
    LET err == ScreenError(reply)
        Frame == [NoAnalysis EXCEPT !.op = "analyze_complete_screen",
                                    !.page_source = merged_xml,
                                    !.screen_context = screen_context,
                                    !.elements = reply.elements,
                                    !.calls = ScreenCalls(reply),
                                    !.embedded = TruncatedXml(merged_xml),
                                    !.prompt_size =
                                        ScreenPromptSize(merged_xml, screen_context)]
    IN  /\ Ready
        /\ pc' = "done"
        /\ performance_metrics' = Track("complete_screen_analysis", err = "")
        /\ IF err \in {"InferenceError", "EmptyResponse"}
           THEN /\ analysis' = [Frame EXCEPT !.outcome = err]
                /\ UNCHANGED audit_trail
           ELSE IF err # ""
           THEN /\ analysis' = [Frame EXCEPT !.outcome = err]
                /\ audit_trail' =
                       Append(audit_trail, Audit("complete_screen_analysis", "FAILED"))
           ELSE /\ analysis' =
                       [Frame EXCEPT
                           !.outcome = "returned_mapping",
                           !.analyses =
                               [k \in 1..Len(reply.elements) |->
                                   [record |-> LocatorAnalysis(reply.elements[k].data,
                                                               merged_xml),
                                    screen_context |->
                                        ScreenContextOf(screen_context,
                                                        reply.elements[k])]]]
                /\ audit_trail' =
                       Append(audit_trail, Audit("complete_screen_analysis", "SUCCESS"))
        /\ req' = NoReq /\ i' = 1 /\ lookups' = <<>> /\ result' = NoResult
        /\ scroll' = NoScroll /\ init' = NoInit
        /\ UNCHANGED driver

(************************* generate_locators_for_test_case *****************)
\* Optional[str]: None is the empty sequence, a string the sequence holding it
NoText == <<>>

\* the LocatorAnalysis object with the two fields the scoring leaves alone:
\* validation_text (None when the reply has none) and screen_context
AnalysisResult(locator_data, page_source, validation_text, screen_context) ==
    LocatorAnalysis(locator_data, page_source)
        @@ [validation_text |-> validation_text, screen_context |-> screen_context]

\* a reply object with its name: KeysOf of the fields given
Candidate(et, pl, sa, fl, ai) ==
    [ keys |-> KeysOf(TRUE, et, pl, sa, fl, ai),
      element_name |-> "login_button",
      element_type |-> et,
      primary_locator |-> pl,
      suggested_actions |-> sa,
      fallback_locators |-> fl,
      accessibility_info |-> ai ]

\* the objects the replies to the steps of a test case carry: one with the
\* required fields only, one with every optional field, one with an element
\* type and one with a strategy outside the schema
StepCandidates ==
    { Candidate("button", Loc("id", V_btn), AbsentActions, AbsentList, AbsentInfo),
      Candidate("text_field", Loc("xpath", V_path4),
                [shape |-> "array", items |-> <<"click", "send_keys">>],
                << Loc("xpath", V_path2) >>, [content_desc |-> "Login button"]),
      Candidate("slider", Loc("id", V_btn), AbsentActions, AbsentList, AbsentInfo),
      Candidate("button", Loc("css", V_btn), AbsentActions, AbsentList, AbsentInfo) }

\* replies to the analyze_element call of a step: validation_text is the
\* 'validation_text' member of the object, NoText when it has none
StepReplies ==
    { [kind |-> k, data |-> NoCandidate, validation_text |-> NoText] :
          k \in {"service_error", "empty", "no_json", "malformed_json"} }
    \cup { [kind |-> "json_object", data |-> d, validation_text |-> vt] :
              d \in StepCandidates, vt \in {NoText, << "Welcome" >>} }

\* step.get('element') of the steps of a test case: an element name, "" for a
\* step without one
StepElements == {"login_button", "cart_icon", ""}

\* test_case.get('steps', []): up to MaxSteps steps
TestCases == UNION { [1..n -> StepElements] : n \in 0..MaxSteps }

\* element_name in locators
InLocators(element_name, locators) ==
    \E k \in 1..Len(locators) : locators[k].name = element_name

\* mutant: only the ValueError of a failed validation is caught
StepAbsorbs_ValueErrorOnly(err) == err \in {"ValueError", "SchemaViolation"}

\* except Exception as e: ... continue          (every exception analyze_element
\* raises is an Exception)
StepAbsorbs(err) ==
    err \in {"ValueError", "SchemaViolation", "InferenceError", "EmptyResponse",
             "MalformedResponse", "JSONDecodeError", "TypeError", "KeyError"}

\* generate_locators_for_test_case(test_case, screen_context): lines 448-455;
\* source_ok: the driver returns a usable page source
Call_generate_locators_for_test_case(steps, screen_context, source_ok) ==
    LET Frame == [NoAnalysis EXCEPT !.op = "generate_locators_for_test_case",
                                    !.steps = steps,
                                    !.screen_context = screen_context]
    IN  /\ Ready
        /\ IF ~driver
           THEN /\ analysis' = [Frame EXCEPT !.outcome = "pending"]
                /\ pc' = "tc_loop"
                /\ UNCHANGED performance_metrics
           ELSE IF source_ok
           THEN /\ analysis' = [Frame EXCEPT !.outcome = "pending",
                                             !.page_source = 64]
                /\ pc' = "tc_loop"
                /\ performance_metrics' = Track("page_source_retrieval", TRUE)
           ELSE /\ analysis' = [Frame EXCEPT !.outcome = "WebDriverException"]
                /\ pc' = "done"
                /\ performance_metrics' = Track("page_source_retrieval", FALSE)
        /\ req' = NoReq /\ i' = 1 /\ lookups' = <<>> /\ result' = NoResult
        /\ scroll' = NoScroll /\ init' = NoInit
        /\ UNCHANGED <<driver, audit_trail>>

\* a step without an element or with one that has its locator: lines 457-458
tc_Skip ==
    /\ pc = "tc_loop"
    /\ i <= Len(analysis.steps)
    /\ \/ analysis.steps[i] = ""
       \/ InLocators(analysis.steps[i], analysis.locators)
    /\ i' = i + 1
    /\ UNCHANGED <<driver, performance_metrics, audit_trail, pc, req, lookups, result,
                   scroll, init, analysis>>

\* a step whose element has no locator yet: analyze_element is called with the
\* page source fetched at the start (lines 459-470, 335-422)
tc_Analyze(reply) ==
    LET element_name == analysis.steps[i]
        no_source == analysis.page_source = NoPageSource
        err == IF no_source THEN "ValueError" ELSE AnalysisError(reply)
        attempt == [name |-> element_name, err |-> err,
                    data |-> IF no_source THEN NoCandidate ELSE reply.data]
        item == [name |-> element_name,
                 analysis |-> AnalysisResult(reply.data, analysis.page_source,
                                             reply.validation_text,
                                             analysis.screen_context)]
    IN  /\ pc = "tc_loop"
        /\ i <= Len(analysis.steps)
        /\ element_name # ""
        /\ ~InLocators(element_name, analysis.locators)
        /\ performance_metrics' = Track("element_analysis", err = "")
        /\ IF no_source THEN UNCHANGED audit_trail
           ELSE audit_trail' =
                    Append(audit_trail,
                           Audit("locator_generation",
                                 IF err = "" THEN "SUCCESS" ELSE "FAILED"))
        /\ IF err = ""
           THEN /\ analysis' = [analysis EXCEPT
                                   !.attempts = Append(@, attempt),
                                   !.locators = Append(@, item)]
                /\ i' = i + 1
                /\ UNCHANGED pc
           ELSE IF StepAbsorbs(err)
           THEN /\ analysis' = [analysis EXCEPT !.attempts = Append(@, attempt)]
                /\ i' = i + 1
                /\ UNCHANGED pc
           ELSE /\ analysis' = [analysis EXCEPT !.attempts = Append(@, attempt),
                                                !.outcome = err]
                /\ pc' = "tc_raise"
                /\ UNCHANGED i
        /\ UNCHANGED <<driver, req, lookups, result, scroll, init>>

\* the loop is over, or an exception leaves it: the with-block of line 455
\* closes and the mapping is returned (lines 472-473)
tc_Return ==
    /\ \/ pc = "tc_loop" /\ i > Len(analysis.steps)
       \/ pc = "tc_raise"
    /\ performance_metrics' = Track("test_case_locator_generation", pc = "tc_loop")
    /\ analysis' = IF pc = "tc_loop" THEN [analysis EXCEPT !.outcome = "returned"]
                   ELSE analysis
    /\ pc' = "done"
    /\ UNCHANGED <<driver, audit_trail, req, i, lookups, result, scroll, init>>

(************************* save_locators_schema_compliant ******************)
\* json.dump of an Optional[str]: None is written as null, a string as a
\* JSON string
JsonOptional(v) ==
    IF v = NoText THEN [json |-> "null", text |-> ""]
    ELSE [json |-> "string", text |-> v[1]]

\* mutant: the fallback locators are written in place of the primary locator
SchemaEntry_FallbackAsPrimary(a) ==
    [ element_name |-> a.element_name,
      element_type |-> a.element_type,
      primary_locator |-> IF a.fallback_locators = <<>> THEN a.primary_locator
                          ELSE a.fallback_locators[1],
      fallback_locators |-> a.fallback_locators,
      description |-> << "Auto-generated locator for ", a.element_name >>,
      suggested_actions |-> a.suggested_actions,
      validation_text |-> JsonOptional(a.validation_text),
      screen_context |-> a.screen_context,
      accessibility_info |-> a.accessibility_info ]

\* schema_compliant["element_locators"][element_name] = {...} as json.dump
\* writes it: lines 501-511, 518
SchemaEntry(a) ==
    [ element_name |-> a.element_name,
      element_type |-> a.element_type,
      primary_locator |-> a.primary_locator,
      fallback_locators |-> a.fallback_locators,
      description |-> << "Auto-generated locator for ", a.element_name >>,
      suggested_actions |-> a.suggested_actions,
      validation_text |-> JsonOptional(a.validation_text),
      screen_context |-> a.screen_context,
      accessibility_info |-> a.accessibility_info ]

\* reading the document back: the record of an entry, its quality_score and
\* confidence computed anew from the persisted fields
ParseEntry(entry) ==
    LET data == [ keys |-> {"element_name", "element_type", "primary_locator",
                            "fallback_locators", "suggested_actions",
                            "accessibility_info"},
                  primary_locator |-> entry.primary_locator,
                  fallback_locators |-> entry.fallback_locators,
                  accessibility_info |-> entry.accessibility_info ]
    IN  [ element_name |-> entry.element_name,
          primary_locator |-> entry.primary_locator,
          fallback_locators |-> entry.fallback_locators,
          element_type |-> entry.element_type,
          suggested_actions |-> entry.suggested_actions,
          validation_text |-> IF entry.validation_text.json = "null" THEN NoText
                              ELSE << entry.validation_text.text >>,
          screen_context |-> entry.screen_context,
          quality_score |-> _assess_locator_quality(entry.primary_locator),
          accessibility_info |-> entry.accessibility_info,
          confidence |-> _calculate_confidence(data, NoPageSource) ]

\* save_locators_schema_compliant(locators, test_case_name): lines 478-523;
\* locators is the mapping as the sequence of its items, file_ok says whether
\* the directory and the file can be written
Call_save_locators_schema_compliant(locators, file_ok) ==
    LET Frame == [NoAnalysis EXCEPT !.op = "save_locators_schema_compliant",
                                    !.locators = locators]
    IN  /\ pc' = "done"
        /\ IF file_ok
           THEN /\ analysis' =
                       [Frame EXCEPT
                           !.outcome = "returned",
                           !.file = [k \in 1..Len(locators) |->
                                        [name |-> locators[k].name,
                                         entry |-> SchemaEntry(locators[k].analysis)]]]
                /\ audit_trail' = Append(audit_trail, Audit("locator_file_save", "SUCCESS"))
           ELSE /\ analysis' = [Frame EXCEPT !.outcome = "OSError"]
                /\ UNCHANGED audit_trail
        /\ req' = NoReq /\ i' = 1 /\ lookups' = <<>> /\ result' = NoResult
        /\ scroll' = NoScroll /\ init' = NoInit
        /\ UNCHANGED <<driver, performance_metrics>>

\* the caller has received the return value or the exception of its call; the
\* frames of the call are gone
Return ==
    /\ pc = "done"
    /\ pc' = "idle"
    /\ req' = NoReq /\ i' = 1 /\ lookups' = <<>> /\ result' = NoResult
    /\ scroll' = NoScroll /\ init' = NoInit /\ analysis' = NoAnalysis
    /\ UNCHANGED <<driver, performance_metrics, audit_trail>>

(************************* properties ***************************************)
\* the strategy lookups and the positions of the text lookups of the running /
\* last find_element_safe
StrategyLookups == SelectSeq(lookups, LAMBDA l : l.kind = "strategy")
TextPositions == { n \in 1..Len(lookups) : lookups[n].kind = "text" }
Tried(sl) == { sl[n].strategy : n \in 1..Len(sl) }

RECURSIVE SumWaits(_)
SumWaits(sl) == IF sl = <<>> THEN 0 ELSE Head(sl).wait + SumWaits(Tail(sl))

\* the five strategies the resolver maps to a driver lookup, in the map's order
MapOrder == <<"id", "xpath", "accessibility_id", "class_name", "android_uiautomator">>
MapPos(s) == CHOOSE k \in 1..Len(MapOrder) : MapOrder[k] = s

\* C1 as written, for a primary strategy the resolver maps: the lookups of a
\* call are, in order, the primary locator, the record's fallback locators in
\* list order, then every other known strategy not yet included with the
\* caller's value.
C1_ClaimedOrder(r) ==
    LET included == {r.locator_strategy}
                    \cup { r.fallback_locators[k].strategy :
                             k \in 1..Len(r.fallback_locators) }
        others == SelectSeq(MapOrder, LAMBDA s : s \notin included)
    IN  << [strategy |-> r.locator_strategy, value |-> r.locator_value] >>
        \o r.fallback_locators
        \o [k \in 1..Len(others) |-> [strategy |-> others[k], value |-> r.locator_value]]

C2_Claim ==
    result.kind # "pending" =>
        \/ result.kind = "element" /\ result.displayed
        \/ result.kind = "NoSuchElementException"

\* C3: when a strategy lookup later than the first yields a visible element,
\* no earlier lookup of the call did, and the call returns that element at
\* once, as a success, with that strategy as the one used.
C3_EarliestVisible ==
    /\ \A n \in 1..Len(lookups) :
           (lookups[n].kind = "strategy" /\ lookups[n].outcome = "visible") =>
               /\ n = Len(lookups)
               /\ \A m \in 1..(n - 1) : lookups[m].outcome # "visible"
               /\ result.kind = "element"
               /\ result.via = "strategy"
               /\ result.strategy = lookups[n].strategy
               /\ result.displayed
    /\ (result.kind = "element" /\ result.via = "strategy") =>
           /\ lookups # <<>>
           /\ lookups[Len(lookups)].outcome = "visible"
           /\ lookups[Len(lookups)].strategy = result.strategy

\* C3 witness: primary id yields nothing visible, xpath does, xpath is returned
C3_Witness ==
    /\ req.locator_strategy = "id"
    /\ Len(lookups) = 2
    /\ lookups[1].strategy = "id" /\ lookups[1].outcome \in {"hidden", "timeout"}
    /\ lookups[2].strategy = "xpath" /\ lookups[2].outcome = "visible"
    /\ result.kind = "element" /\ result.strategy = "xpath"

\* C4: when no strategy lookup yielded a visible element and the text lookup
\* found nothing, find_element_safe raises NoSuchElementException naming the
\* caller's locator value; it raises that exception in no other case.
C4_NotFoundNamesValue ==
    /\ \A n \in TextPositions :
           lookups[n].outcome \in {"timeout", "error"} =>
               /\ result.kind = "NoSuchElementException"
               /\ result.value = req.locator_value
    /\ result.kind = "NoSuchElementException" =>
           /\ result.value = req.locator_value
           /\ \A n \in 1..Len(lookups) :
                  lookups[n].outcome \notin {"visible", "found_displayed", "found_hidden"}
           /\ TextPositions # {}

\* C4 witness: all five strategies and the text lookup found nothing for "Login"
C4_Witness ==
    /\ result.kind = "NoSuchElementException"
    /\ req.locator_value = "Login"
    /\ Len(StrategyLookups) = 5
    /\ TextPositions # {}

\* C5 as written: for every budget the waits of the strategy lookups of one
\* call add up to no more than the budget the caller passed.
C5_Original ==
    req.timeout # None => SumWaits(StrategyLookups) <= req.timeout

\* C5 (amended): each strategy lookup waits floor(B / N), where B is the
\* caller's budget, or the default 15 when the budget is None or 0, and N is
\* the length of the trial list (5, or 6 when the primary strategy is not
\* mapped and gets no lookup); so the waits of one call's strategy lookups add
\* up to no more than B.
C5_TrialBudget ==
    LET sl == StrategyLookups
        B == IF req.timeout = None \/ req.timeout = 0 THEN DEFAULT_TIMEOUT ELSE req.timeout
        N == IF req.locator_strategy \in Range(MapOrder) THEN 5 ELSE 6
    IN  /\ \A n \in 1..Len(sl) : sl[n].wait * N <= B /\ B < (sl[n].wait + 1) * N
        /\ SumWaits(sl) <= B

\* C5 witness: five lookups were made on a budget that 5 does not divide
C5_Witness ==
    /\ req.timeout = LongTimeout
    /\ Len(StrategyLookups) = 5
    /\ SumWaits(StrategyLookups) > 0

\* C6 as written: no failure of a single strategy lookup or visibility check
\* ends the call; find_element_safe fails only after every strategy lookup and
\* the text lookup have been made.
C6_Claim ==
    result.kind \in {"NoSuchElementException", "WebDriverException"} =>
        /\ TextPositions # {}
        /\ Tried(StrategyLookups) = Range(MapOrder)

\* C7: the text lookup is made at most once per call, as the last lookup, after
\* all five strategy lookups were made and none yielded a visible element; a
\* call in which a strategy lookup succeeded makes no text lookup.
C7_TextFallbackLast ==
    /\ Cardinality(TextPositions) <= 1
    /\ \A n \in TextPositions :
           /\ n = Len(lookups)
           /\ Tried(SubSeq(lookups, 1, n - 1)) = Range(MapOrder)
           /\ \A m \in 1..(n - 1) :
                  lookups[m].kind = "strategy" /\ lookups[m].outcome # "visible"
    /\ (result.kind = "element" /\ result.via = "strategy") => TextPositions = {}

\* C7 witness: the text lookup was made, after five fruitless strategy lookups
C7_Witness ==
    /\ Len(lookups) = 6
    /\ lookups[6].kind = "text"
    /\ lookups[6].outcome = "found_displayed"

\* C8 as written: scroll_to_element makes at most max_scrolls + 1 attempts and
\* at most max_scrolls swipes, one swipe after each failed attempt but the
\* last, none after a success, and when every attempt failed it gives up with
\* NoSuchElementException.
C8_Claim ==
    LET ev == scroll.events
        attempts == { n \in 1..Len(ev) : ev[n] # "swipe" }
        swipes == { n \in 1..Len(ev) : ev[n] = "swipe" }
        ended == scroll.outcome \in {"element", "NoSuchElementException",
                                     "WebDriverException"}
    IN  /\ Cardinality(attempts) <= scroll.max_scrolls + 1
        /\ Cardinality(swipes) <= scroll.max_scrolls
        /\ \A n \in swipes : n > 1 /\ ev[n - 1] \in {"notfound", "error"}
        /\ \A n \in attempts :
               (ev[n] # "found" /\ n < Len(ev)) => ev[n + 1] = "swipe"
        /\ \A n \in attempts : ev[n] = "found" => n = Len(ev)
        /\ (ended /\ \A n \in attempts : ev[n] # "found")
               => scroll.outcome = "NoSuchElementException"

\* the candidate has the three required fields, a primary strategy, an element
\* type and (when present) suggested actions that are all in the schema's sets
C9_Acceptable(d) ==
    /\ {"element_name", "element_type", "primary_locator"} \subseteq d.keys
    /\ "strategy" \in d.primary_locator.keys
    /\ d.primary_locator.strategy \in supported_strategies
    /\ d.element_type \in element_types
    /\ "suggested_actions" \in d.keys =>
           \A k \in 1..Len(d.suggested_actions.items) :
               d.suggested_actions.items[k] \in supported_actions

C10_Claim ==
    analysis.outcome = "returned" =>
        /\ analysis.record.primary_locator.strategy \in supported_strategies
        /\ \A k \in 1..Len(analysis.record.fallback_locators) :
               analysis.record.fallback_locators[k].strategy \in supported_strategies
        /\ analysis.record.element_type \in element_types

\* a record whose primary strategy, element type and suggested actions are all
\* in the schema's sets
RecordValid(r) ==
    /\ r.primary_locator.shape = "object"
    /\ "strategy" \in r.primary_locator.keys
    /\ r.primary_locator.strategy \in supported_strategies
    /\ r.element_type \in element_types
    /\ \A k \in 1..Len(r.suggested_actions) : r.suggested_actions[k] \in supported_actions

\* C11 as written: every record analyze_element returns and every record in
\* the mapping analyze_complete_screen returns passes the validation rules.
C11_Claim ==
    /\ analysis.outcome = "returned" => RecordValid(analysis.record)
    /\ analysis.outcome = "returned_mapping" =>
           \A k \in 1..Len(analysis.analyses) : RecordValid(analysis.analyses[k].record)

\* positions of a call in the calls a method made
CallPositions(name) == { n \in 1..Len(analysis.calls) : analysis.calls[n] = name }

\* C12: in analyze_element the parsed JSON is validated before quality and
\* confidence are computed; when validation fails the call raises the schema
\* error, no record is built, and neither _assess_locator_quality nor
\* _calculate_confidence is called.
C12_ValidateFirst ==
    analysis.op = "analyze_element" =>
        /\ \A n \in CallPositions("_assess_locator_quality")
                   \cup CallPositions("_calculate_confidence") :
               \E m \in CallPositions("_validate_generated_locator") : m < n
        /\ (CallPositions("_validate_generated_locator") # {}
            /\ ~_validate_generated_locator(analysis.locator_data)) =>
               /\ analysis.outcome = "SchemaViolation"
               /\ analysis.record = NoRecord
               /\ ~analysis.valid
               /\ CallPositions("_assess_locator_quality") = {}
               /\ CallPositions("_calculate_confidence") = {}
        /\ analysis.outcome = "returned" =>
               /\ _validate_generated_locator(analysis.locator_data)
               /\ CallPositions("_assess_locator_quality") # {}

\* C12 witness: a candidate with a strategy outside the schema was rejected
\* right after validation
C12_Witness ==
    /\ analysis.op = "analyze_element"
    /\ analysis.outcome = "SchemaViolation"
    /\ analysis.locator_data.primary_locator.strategy = "css"
    /\ analysis.calls[Len(analysis.calls)] = "_validate_generated_locator"

\* C13: _validate_generated_locator never raises and has no side effect: for
\* every candidate, also one whose primary_locator is no object or has no
\* strategy and one whose suggested_actions is absent or no list, the call
\* returns True or False and leaves the audit trail, the metrics and the
\* driver session as they were (the schema sets are fixed sets of the model).
C13_ValidateTotal ==
    [][validate_generated_locator =>
          /\ analysis'.outcome \in {"True", "False"}
          /\ analysis'.locator_data = analysis.locator_data
          /\ UNCHANGED <<audit_trail, performance_metrics, driver>>]_vars

\* C13 witness: a candidate whose primary_locator is a string was answered False
C13_Witness ==
    /\ Executed("_validate_generated_locator")
    /\ {"element_name", "element_type", "primary_locator"}
           \subseteq analysis.locator_data.keys
    /\ analysis.locator_data.primary_locator.shape = "string"
    /\ analysis.outcome = "False"

\* C14: one call of analyze_element or analyze_complete_screen calls
\* generate_content at most once; when that call raises, returns empty text or
\* text without JSON, the operation fails after exactly one generate_content
\* call and returns nothing.
C14_SingleGenerate ==
    analysis.op \in {"analyze_element", "analyze_complete_screen"} =>
        /\ Cardinality(CallPositions("generate_content")) <= 1
        /\ analysis.outcome \in {"InferenceError", "EmptyResponse", "MalformedResponse"} =>
               /\ Cardinality(CallPositions("generate_content")) = 1
               /\ analysis.record = NoRecord
               /\ analysis.analyses = <<>>

\* C14 witness: the service call of analyze_element failed
C14_Witness ==
    /\ analysis.op = "analyze_element"
    /\ analysis.outcome = "InferenceError"
    /\ analysis.calls = << "generate_content" >>

\* the substrings of a text that are one well-formed JSON object, as pairs of
\* first and last position, and the first of them
ObjectSpans(text) ==
    { sp \in (1..Len(text)) \X (1..Len(text)) :
          sp[1] <= sp[2] /\ IsJsonObject(SubSeq(text, sp[1], sp[2])) }

FirstObject(text) ==
    LET sp == CHOOSE x \in ObjectSpans(text) : \A y \in ObjectSpans(text) : x[1] <= y[1]
    IN  SubSeq(text, sp[1], sp[2])

\* C15 as written: from a reply that contains a well-formed JSON object the
\* extraction returns the first well-formed JSON object substring, whatever
\* follows it; when no substring of the reply parses as JSON, the reply is
\* rejected (the extraction raises, or what it returns does not parse).
C15_Claim ==
    Executed("_extract_json_from_response") =>
        /\ ObjectSpans(analysis.text) # {} =>
               /\ analysis.outcome = "returned"
               /\ analysis.extracted = FirstObject(analysis.text)
        /\ (\A a \in 1..Len(analysis.text), b \in 1..Len(analysis.text) :
                ~JsonParses(SubSeq(analysis.text, a, b))) =>
               \/ analysis.outcome = "ValueError"
               \/ ~JsonParses(analysis.extracted)

\* occurrences of a token (a sequence of characters) in a value, counted from
\* the left without overlap, as str.count does
RECURSIVE CountToken(_, _)
CountToken(value, token) ==
    IF Len(value) < Len(token) THEN 0
    ELSE IF SubSeq(value, 1, Len(token)) = token
    THEN 1 + CountToken(SubSeq(value, Len(token) + 1, Len(value)), token)
    ELSE CountToken(Tail(value), token)

\* the rule table of the quality tiers, first match wins, with one token for
\* the "no path separator" rules and one for the path depth
RuleTable(strategy, value, separator, depth_token) ==
    IF strategy = "id" /\ value # <<>> /\ CountToken(value, separator) = 0
    THEN "excellent"
    ELSE IF strategy = "accessibility_id" /\ value # <<>> THEN "excellent"
    ELSE IF strategy = "class_name" /\ value # <<>> /\ CountToken(value, separator) = 0
    THEN "good"
    ELSE IF strategy = "xpath" /\ CountToken(value, depth_token) <= 3 THEN "good"
    ELSE IF strategy = "xpath" /\ CountToken(value, depth_token) <= 6 THEN "acceptable"
    ELSE "poor"

\* the locator a call of _assess_locator_quality was made with
Assessed == analysis.locator_data.primary_locator

\* C16 as written: there is one path-separator token, the slash or the double
\* slash, such that _assess_locator_quality agrees for every strategy and
\* value with the rule table that uses this token both in the "no path
\* separator" rules and for the path depth.
C16_Original ==
    Executed("_assess_locator_quality") =>
        \E token \in { << "/" >>, << "/", "/" >> } :
            \A l \in AssessInputs :
                _assess_locator_quality(l)
                    = RuleTable(GetStrategy(l), GetValue(l), token, token)

\* C16 (amended): _assess_locator_quality agrees for every strategy and value
\* with the rule table, first match wins, in which the "no path separator"
\* rules of id and class_name test that the value does not contain a double
\* slash, and the path depth of xpath is the number of single slashes in the
\* value; a missing value counts as the empty value.
C16_TwoTokens ==
    Executed("_assess_locator_quality") =>
        analysis.quality
            = RuleTable(GetStrategy(Assessed), GetValue(Assessed), << "/", "/" >>, << "/" >>)

\* C16 witness: an id with a single slash and no double slash was rated excellent
C16_Witness ==
    /\ Executed("_assess_locator_quality")
    /\ Assessed.strategy = "id"
    /\ CountToken(Assessed.value, << "/" >>) = 1
    /\ analysis.quality = "excellent"

\* the tiers from worst to best
TierRank(tier) ==
    CASE tier = "poor" -> 0
      [] tier = "acceptable" -> 1
      [] tier = "good" -> 2
      [] tier = "excellent" -> 3

\* C17: for xpath locators the tier is good up to depth 3, acceptable from 4 to
\* 6 and poor above 6, the depth being the number of slashes in the value; so
\* no xpath value of greater or equal depth gets a better tier.
C17_DepthMonotone ==
    (Executed("_assess_locator_quality") /\ GetStrategy(Assessed) = "xpath") =>
        LET depth == CountToken(GetValue(Assessed), << "/" >>)
        IN  /\ depth <= 3 => analysis.quality = "good"
            /\ (depth >= 4 /\ depth <= 6) => analysis.quality = "acceptable"
            /\ depth > 6 => analysis.quality = "poor"
            /\ \A v \in Values :
                   depth <= CountToken(v, << "/" >>) =>
                       TierRank(analysis.quality)
                           >= TierRank(_assess_locator_quality(Loc("xpath", v)))

\* C17 witness: an xpath of depth 7 was rated poor
C17_Witness ==
    /\ Executed("_assess_locator_quality")
    /\ Assessed.strategy = "xpath"
    /\ CountToken(Assessed.value, << "/" >>) = 7
    /\ analysis.quality = "poor"

\* the candidate a call of _calculate_confidence was made with
FallbackCount ==
    IF "fallback_locators" \in analysis.locator_data.keys
    THEN Len(analysis.locator_data.fallback_locators) ELSE 0

HasContentDesc ==
    /\ "accessibility_info" \in analysis.locator_data.keys
    /\ analysis.locator_data.accessibility_info.content_desc # ""

\* C18: the confidence (in hundredths) is within [0, 1] for every primary
\* strategy, known or not, every number of fallbacks and with or without a
\* content description.
C18_ConfidenceRange ==
    Executed("_calculate_confidence") =>
        analysis.confidence >= 0 /\ analysis.confidence <= 100

\* C18 witness: id, three or more fallbacks and a content description: the sum
\* 1.15 was capped to 1
C18_Witness ==
    /\ Executed("_calculate_confidence")
    /\ analysis.locator_data.primary_locator.strategy = "id"
    /\ FallbackCount >= 3
    /\ HasContentDesc
    /\ analysis.confidence = 100

\* the strategy bonus of C19, in hundredths
StrategyBonus(strategy) ==
    CASE strategy = "id" -> 40
      [] strategy = "accessibility_id" -> 35
      [] strategy = "class_name" -> 20
      [] strategy = "android_uiautomator" -> 15
      [] strategy \in {"xpath", "name"} -> 10
      [] strategy = "tag_name" -> 5
      [] OTHER -> 0

\* C19: the confidence is min(1, 0.5 + strategy bonus + min(0.05 * fallbacks,
\* 0.15) + 0.1 for a non-empty content description); more than three
\* fallbacks add nothing, and the page source does not change the result.
C19_ConfidenceFormula ==
    Executed("_calculate_confidence") =>
        LET boost == IF FallbackCount >= 3 THEN 15 ELSE 5 * FallbackCount
            sum == 50 + StrategyBonus(analysis.locator_data.primary_locator.strategy)
                      + boost + (IF HasContentDesc THEN 10 ELSE 0)
        IN  /\ analysis.confidence = (IF sum > 100 THEN 100 ELSE sum)
            /\ \A ps \in PageSources :
                   _calculate_confidence(analysis.locator_data, ps) = analysis.confidence

\* C19 witness: xpath with four fallbacks and no content description scores 0.75
C19_Witness ==
    /\ Executed("_calculate_confidence")
    /\ analysis.locator_data.primary_locator.strategy = "xpath"
    /\ FallbackCount = 4
    /\ ~HasContentDesc
    /\ analysis.confidence = 75

\* C20 as written: every record of the mapping analyze_complete_screen returns
\* has a screen_context that ends with the tag of a scroll-position section.
C20_Original ==
    analysis.outcome = "returned_mapping" =>
        \A k \in 1..Len(analysis.analyses) :
            LET ctx == analysis.analyses[k].screen_context
            IN  ctx[Len(ctx)] \in ScrollPositions \ {"absent"}

\* C20 (amended): every record of the mapping analyze_complete_screen returns
\* has as screen_context the caller's screen context, an underscore and the
\* scroll_position the reply reports for that element, so it ends with that
\* tag; when the reply reports no scroll_position for the element it ends with
\* 'unknown'.
C20_ContextSuffix ==
    analysis.outcome = "returned_mapping" =>
        /\ Len(analysis.analyses) = Len(analysis.elements)
        /\ \A k \in 1..Len(analysis.analyses) :
               LET ctx == analysis.analyses[k].screen_context
                   sp == analysis.elements[k].scroll_position
               IN  /\ Len(ctx) = 3
                   /\ ctx[1] = analysis.screen_context
                   /\ ctx[2] = "_"
                   /\ ctx[3] = (IF sp = "absent" THEN "unknown" ELSE sp)

\* C20 witness: a mapping with one element reported at top and one at bottom
C20_Witness ==
    /\ analysis.outcome = "returned_mapping"
    /\ Len(analysis.analyses) = 2
    /\ analysis.elements[1].scroll_position = "top"
    /\ analysis.elements[2].scroll_position = "bottom"
    /\ analysis.analyses[2].screen_context[3] = "bottom"

\* the required fields of an element_data are there and well-formed
RequiredPresent(d) ==
    /\ {"element_name", "element_type", "primary_locator"} \subseteq d.keys
    /\ d.primary_locator.shape = "object"
    /\ "strategy" \in d.primary_locator.keys

\* C21 as written: when every element of the reply has its required fields,
\* analyze_complete_screen does not raise whatever the optional sub-fields
\* are (missing, given, or null), and a record whose optional collection was
\* not given holds the empty collection.
C21_Claim ==
    (/\ analysis.op = "analyze_complete_screen"
     /\ analysis.outcome \notin {"none", "InferenceError", "EmptyResponse",
                                 "MalformedResponse", "JSONDecodeError"}
     /\ \A k \in 1..Len(analysis.elements) : RequiredPresent(analysis.elements[k].data))
    => /\ analysis.outcome = "returned_mapping"
       /\ \A k \in 1..Len(analysis.analyses) :
              LET d == analysis.elements[k].data
                  r == analysis.analyses[k].record
              IN  /\ "fallback_locators" \notin d.keys => r.fallback_locators = <<>>
                  /\ "suggested_actions" \notin d.keys => r.suggested_actions = <<>>

\* the snapshot budget of a method
SourceBudget(op) ==
    IF op = "analyze_element" THEN ELEMENT_SOURCE_BUDGET ELSE SCREEN_SOURCE_BUDGET

\* The source configures no maximum prompt size.  The limit taken is the
\* fixed text of the request plus the snapshot budget plus as many characters
\* again for the description and the context.
PromptLimit(op) ==
    (IF op = "analyze_element" THEN ELEMENT_PROMPT_TEXT ELSE SCREEN_PROMPT_TEXT)
        + 2 * SourceBudget(op)

\* C22 as written: the snapshot embedded in a request sent to the
\* text-generation service is at most the budget long (and is the whole
\* snapshot when that fits), and the request is never longer than the maximum
\* prompt size, whatever the description, the context and the snapshot.
C22_Claim ==
    (/\ analysis.op \in {"analyze_element", "analyze_complete_screen"}
     /\ analysis.calls # <<>>)
    => /\ analysis.embedded <= SourceBudget(analysis.op)
       /\ analysis.page_source <= SourceBudget(analysis.op)
              => analysis.embedded = analysis.page_source
       /\ analysis.prompt_size <= PromptLimit(analysis.op)

Succeeded == { analysis.attempts[k].name :
                  k \in { n \in 1..Len(analysis.attempts) : analysis.attempts[n].err = "" } }

\* the steps that name an element
NamedSteps == { k \in 1..Len(analysis.steps) : analysis.steps[k] # "" }

\* C26: a call of generate_locators_for_test_case that got to its loop does
\* not fail whatever the analyze_element calls of its steps raise: it
\* returns, every step that names an element had its element analysed at
\* least once unless that element had its locator by then, and the mapping
\* returned holds exactly the names whose analysis succeeded, each once and
\* with a record that passes the validation rules.
C26_AbsorbsFailures ==
    (/\ analysis.op = "generate_locators_for_test_case"
     /\ pc = "done"
     /\ analysis.outcome # "WebDriverException")
    => /\ analysis.outcome = "returned"
       /\ \A k \in NamedSteps :
              \E n \in 1..Len(analysis.attempts) :
                  analysis.attempts[n].name = analysis.steps[k]
       /\ { analysis.locators[k].name : k \in 1..Len(analysis.locators) } = Succeeded
       /\ \A k, m \in 1..Len(analysis.locators) :
              analysis.locators[k].name = analysis.locators[m].name => k = m
       /\ \A k \in 1..Len(analysis.locators) :
              RecordValid(analysis.locators[k].analysis)

\* C26 witness: the analysis of the first step's element failed, that of the
\* second step's element succeeded and is the one entry of the mapping
C26_Witness ==
    /\ analysis.op = "generate_locators_for_test_case"
    /\ pc = "done"
    /\ analysis.outcome = "returned"
    /\ Len(analysis.attempts) = 2
    /\ analysis.attempts[1].err \in {"InferenceError", "MalformedResponse",
                                     "SchemaViolation"}
    /\ analysis.attempts[2].err = ""
    /\ Len(analysis.locators) = 1
    /\ analysis.locators[1].name = analysis.steps[2]

\* a step of analyze_element or analyze_complete_screen
InferStep ==
    pc = "idle" /\ analysis'.op \in {"analyze_element", "analyze_complete_screen"}

\* a step of a find_element_safe call a caller made
ResolveStep ==
    \/ pc = "idle" /\ req' # NoReq /\ ~scroll'.active
    \/ pc = "fes_loop" /\ ~scroll.active

IsPrefix(s, t) == Len(s) <= Len(t) /\ SubSeq(t, 1, Len(s)) = s

InitMetrics ==
    LET made == IF init.returned = "pending" THEN init.attempt ELSE init.attempt + 1
        n == Len(performance_metrics)
    IN  SubSeq(performance_metrics, n - made + 1, n)

\* C25: initialize_driver makes at most MAX_RETRY_ATTEMPTS attempts; it sleeps
\* 2 s after the first failed attempt and 4 s after the second and not after
\* the third; it returns True at the first attempt that succeeds, all
\* attempts before it having failed, and makes no attempt after that; it
\* returns False only when MAX_RETRY_ATTEMPTS attempts have failed.
C25_RetryBackoff ==
    init.returned # "none" =>
        /\ Len(InitMetrics) <= MAX_RETRY_ATTEMPTS
        /\ \A k \in 1..Len(InitMetrics) : InitMetrics[k].operation = "driver_initialization"
        /\ Len(init.sleeps) = init.attempt
        /\ Len(init.sleeps) <= MAX_RETRY_ATTEMPTS - 1
        /\ \A k \in 1..Len(init.sleeps) : init.sleeps[k] = 2 * k
        /\ init.returned = "pending" =>
               /\ pc = "init_loop"
               /\ \A k \in 1..Len(InitMetrics) : ~InitMetrics[k].success
        /\ init.returned = "True" =>
               /\ pc = "done"
               /\ driver
               /\ InitMetrics[Len(InitMetrics)].success
               /\ \A k \in 1..(Len(InitMetrics) - 1) : ~InitMetrics[k].success
        /\ init.returned = "False" =>
               /\ pc = "done"
               /\ Len(InitMetrics) = MAX_RETRY_ATTEMPTS
               /\ \A k \in 1..Len(InitMetrics) : ~InitMetrics[k].success
               /\ init.sleeps = << 2, 4 >>

\* C25 witness: the third attempt succeeded after the two sleeps
C25_Witness ==
    /\ init.returned = "True"
    /\ init.sleeps = << 2, 4 >>
    /\ Len(performance_metrics) >= 3
    /\ performance_metrics[Len(performance_metrics)].success

\* the pattern the claim has _extract_python_code_from_response answer with:
\* the first in the list whose first match is longer than 100 characters, 0
\* when there is none
ClaimedPattern(text) ==
    LET good == { p \in 1..PatternCount :
                     /\ FirstFound(p, text) # <<>>
                     /\ TextSize(StripText(FirstFound(p, text)[1])) > 100 }
    IN  IF good = {} THEN 0 ELSE SetMin(good)

\* C27 as written: _extract_python_code_from_response returns the first match
\* of the first pattern in the list that has a match longer than 100
\* characters (so the content of a python-fenced block of more than 100
\* characters, when the reply has one), and the cleaned whole response only
\* when no pattern has such a match.
C27_Claim ==
    Executed("_extract_python_code_from_response") =>
        LET p == ClaimedPattern(analysis.text)
        IN  analysis.extracted =
                IF p = 0 THEN CleanedResponse(analysis.text)
                ELSE StripText(FirstFound(p, analysis.text)[1])

\* C28 as written: for every primary strategy _validate_generated_locator
\* accepts (name and tag_name included) the first lookup of find_element_safe
\* is a lookup by that strategy with the caller's value, and the loop never
\* goes past a strategy it counts in the divisor of the per-trial wait without
\* a lookup for it.
C28_Claim ==
    LET order == StrategyOrder(req.locator_strategy)
    IN  req.locator_strategy \in supported_strategies =>
          /\ lookups # <<>> =>
                 /\ lookups[1].kind = "strategy"
                 /\ lookups[1].strategy = req.locator_strategy
                 /\ lookups[1].value = req.locator_value
          /\ \A n \in 1..Len(order) :
                 (pc = "fes_loop" /\ n < i) =>
                     \E m \in 1..Len(lookups) :
                         lookups[m].kind = "strategy" /\ lookups[m].strategy = order[n]

\* C29: each strategy lookup of find_element_safe waits the integer floor of
\* budget / N, a budget of 0 or None being replaced by the default 15 and N
\* being the length of the trial list, so it waits 0 whenever 0 < budget < N;
\* every strategy lookup made through scroll_to_element (budget 2, N at least
\* 5) waits 0, and the only positive wait of such an attempt is the 2 seconds
\* of the text lookup.
C29_FloorWait ==
    LET B == IF req.timeout = None \/ req.timeout = 0 THEN 15 ELSE req.timeout
        N == IF req.locator_strategy \in Range(MapOrder) THEN 5 ELSE 6
        through_scroll == scroll.outcome # "none" /\ lookups # <<>>
    IN  /\ \A n \in 1..Len(lookups) :
               lookups[n].kind = "strategy" =>
                   /\ lookups[n].wait * N <= B
                   /\ B < (lookups[n].wait + 1) * N
                   /\ (0 < req.timeout /\ req.timeout < N) => lookups[n].wait = 0
        /\ through_scroll =>
               /\ req.timeout = 2
               /\ \A n \in 1..Len(lookups) :
                      IF lookups[n].kind = "strategy" THEN lookups[n].wait = 0
                      ELSE lookups[n].wait = 2

\* C29 witness: an attempt of scroll_to_element made its five strategy lookups
\* without waiting and then the text lookup with its wait of 2 seconds
C29_Witness ==
    /\ scroll.outcome # "none"
    /\ Len(lookups) = 6
    /\ \A n \in 1..5 : lookups[n].kind = "strategy" /\ lookups[n].wait = 0
    /\ lookups[6].kind = "text"
    /\ lookups[6].wait > 0

\* the tracked block of find_element_safe opens, and closes
FesOpens == pc # "fes_loop" /\ pc' = "fes_loop"
FesCloses == pc = "fes_loop" /\ pc' # "fes_loop"

\* C30: _performance_tracking appends exactly one entry per tracked block, when
\* the block closes: none while find_element_safe is inside its block, one
\* element_detection entry when it leaves it, with success true if and only if
\* the body did not raise, the exception of a body that raised being the one
\* the call ends with; a call that ends in ElementNotFound, raised after the
\* block has closed, has its entry recorded with success true.
C30_TrackedOnce ==
    [][LET last == performance_metrics'[Len(performance_metrics')]
       IN  /\ (FesOpens \/ (pc = "fes_loop" /\ pc' = "fes_loop")) =>
                  performance_metrics' = performance_metrics
           /\ FesCloses =>
                  /\ Len(performance_metrics') = Len(performance_metrics) + 1
                  /\ IsPrefix(performance_metrics, performance_metrics')
                  /\ last.operation = "element_detection"
                  /\ last.success = (result'.kind # "WebDriverException")
                  /\ result'.kind \in {"element", "NoSuchElementException",
                                       "WebDriverException"}
                  /\ result'.kind = "NoSuchElementException" => last.success]_vars

\* C30 witness: a find_element_safe call has ended in ElementNotFound and its
\* element_detection entry says success
C30_Witness ==
    /\ pc = "done"
    /\ result.kind = "NoSuchElementException"
    /\ performance_metrics # <<>>
    /\ performance_metrics[Len(performance_metrics)] = Metric("element_detection", TRUE)

(************************* specification ***********************************)
\* the calls a caller can make between two calls, with every argument they take
find_element_safe ==
    /\ Ready
    /\ \E ls \in LocatorStrategies, rec \in ResolvedRecords, t \in TimeoutArgs :
          Call_find_element_safe(ls, rec.value, t, rec.fallback_locators)

scroll_to_element ==
    /\ Ready
    /\ \E target \in ScrollTargets, m \in 0..MaxScrolls :
          Call_scroll_to_element(target.strategy, target.value, m)

initialize_driver == Call_initialize_driver

close_driver == \E quit_ok \in BOOLEAN : Call_close_driver(quit_ok)

\* the description, the context and the page source are varied on the calls
\* whose reply carries no object (the request is built before the reply is
\* there), the calls whose reply carries one have the nominal arguments
analyze_element ==
    /\ Ready
    /\ \E t \in TargetElements, ctx \in ScreenContexts, ps \in PageSources,
          g \in BOOLEAN, ok \in BOOLEAN, r \in Replies :
          /\ r.kind = "json_object" => NominalRequest(t, ctx, ps)
          /\ Call_analyze_element(t, ctx, g, ps, ok, r)

analyze_complete_screen ==
    /\ Ready
    /\ \E xml \in PageSources, ctx \in ScreenContexts, r \in ScreenReplies :
          Call_analyze_complete_screen(xml, ctx, r)

\* the steps of the running call, with every outcome the driver can produce
fes_TrialStep == \E o \in TrialOutcomes : fes_Trial(o)

fes_TextStep == \E o \in TextOutcomes : fes_TextFallback(o)

init_AttemptStep == \E o \in InitOutcomes : init_Attempt(o)

Next ==
    \/ find_element_safe
    \/ fes_Skip
    \/ fes_TrialStep
    \/ fes_TextStep
    \/ scroll_to_element
    \/ scroll_Return
    \/ initialize_driver
    \/ init_AttemptStep
    \/ close_driver
    \/ analyze_element
    \/ analyze_complete_screen
    \/ Return

Spec == Init /\ [][Next]_vars

\* the locators of a test case are generated and saved
generate_locators_for_test_case ==
    /\ Ready
    /\ \E steps \in TestCases, ok \in BOOLEAN :
          Call_generate_locators_for_test_case(steps, "test_screen", ok)

tc_AnalyzeStep == \E r \in StepReplies : tc_Analyze(r)

\* the caller hands the mapping it was returned to save_locators_schema_compliant
save_locators_schema_compliant ==
    /\ pc = "done"
    /\ analysis.op = "generate_locators_for_test_case"
    /\ analysis.outcome = "returned"
    /\ \E file_ok \in BOOLEAN :
          Call_save_locators_schema_compliant(analysis.locators, file_ok)

NextTestCase ==
    \/ initialize_driver
    \/ init_AttemptStep
    \/ generate_locators_for_test_case
    \/ tc_Skip
    \/ tc_AnalyzeStep
    \/ tc_Return
    \/ save_locators_schema_compliant
    \/ Return

SpecTestCase == Init /\ [][NextTestCase]_vars

\* the pure methods of the generator, each applied to every input of its set:
\* the generator is constructed as in Init and one call on it is pending
InitPure ==
    /\ driver = FALSE
    /\ performance_metrics = <<>>
    /\ audit_trail = << Audit("framework_initialization", "SUCCESS") >>
    /\ pc = "idle"
    /\ req = NoReq
    /\ i = 1
    /\ lookups = <<>>
    /\ result = NoResult
    /\ scroll = NoScroll
    /\ init = NoInit
    /\ analysis \in PendingCalls

NextPure ==
    \/ validate_generated_locator
    \/ assess_locator_quality
    \/ calculate_confidence
    \/ extract_json_from_response
    \/ extract_python_code_from_response

SpecPure == InitPure /\ [][NextPure]_vars

====
